---- MODULE Spec2Model ----
(***************************************************************************)
(* Model of the stock dashboard: the portfolio manager                     *)
(* (src/data/portfolio.py), the trade journal (src/data/trade_journal.py), *)
(* the cached price retrieval (src/data/fetcher.py) and the request        *)
(* handlers of src/app.py that use them.                                   *)
(*                                                                         *)
(* Conventions                                                             *)
(*  - A value that may be Python None / SQL NULL is a sequence: None is    *)
(*    <<>> and the value v is <<v>>.                                       *)
(*  - A Python dict is a function whose DOMAIN is the set of keys present; *)
(*    dict.get(k, default) is Get(d, k, default).                          *)
(*  - Prices are integers (price ticks); a quotient such as                *)
(*    profit_loss / cost_total * 100 is kept exact, as a fraction in       *)
(*    lowest terms [num, den] with den > 0.                                *)
(***************************************************************************)
EXTENDS Integers, Sequences, FiniteSets, TLC

VARIABLES
    portfolio,   \* table portfolio: code -> row
    trades,      \* table trades: the rows, in rowid order
    cache,       \* the files of stock_cache/: key -> [data, mtime]
    now,         \* the wall clock, in tenths of a second
    op,          \* the operation that ran last
    arg,         \* its arguments
    ret,         \* what it returned
    threads,     \* the requests being served: thread -> its request and position
    fetcher,     \* StockDataFetcher: request_count and last_request_time
    sent,        \* the clock at each request sent upstream, oldest first
    config       \* the global config dict of app.py, as far as it is modelled

vars == <<portfolio, trades, cache, now, op, arg, ret, threads, fetcher, sent,
          config>>

-----------------------------------------------------------------------------
(* Values *)

None == <<>>
Some(v) == <<v>>

\* Python truthiness of a number-or-None: None and 0 are false.
Truthy(x) == x # None /\ x[1] # 0

\* dict.get(k, default)
Get(d, k, default) == IF k \in DOMAIN d THEN d[k] ELSE default

Abs(n) == IF n < 0 THEN -n ELSE n

RECURSIVE GCD(_, _)
GCD(a, b) == IF b = 0 THEN a ELSE GCD(b, a % b)

\* The fraction n/d (d # 0) in lowest terms with a positive denominator.
Rat(n, d) ==
    LET g == GCD(Abs(n), Abs(d))
        s == IF d < 0 THEN -1 ELSE 1
    IN  [num |-> s * (n \div g), den |-> s * (d \div g)]

RatInt(n) == [num |-> n, den |-> 1]
RatAdd(a, b) == Rat(a.num * b.den + b.num * a.den, a.den * b.den)
RatDivInt(a, n) == Rat(a.num, a.den * n)
\* a >= k and a <= k for an integer k
RatGe(a, k) == a.num >= k * a.den
RatLe(a, k) == a.num <= k * a.den

-----------------------------------------------------------------------------
(* get_strategy, src/app.py *)

StopLossHit == "stop-loss hit"
StopProfitHit == "stop-profit hit"
StrongGain == "strong gain"
Hold == "hold"
HoldBreakeven == "hold awaiting breakeven"
Watch == "watch"
RecommendStopLoss == "recommend stop-loss"

Labels == {StopLossHit, StopProfitHit, StrongGain, Hold, HoldBreakeven, Watch,
           RecommendStopLoss}

\* The percentage bands of get_strategy, lines 389-398.
PctBand(pct) ==
    IF RatGe(pct, 10) THEN StrongGain
    ELSE IF RatGe(pct, 5) THEN Hold
    ELSE IF RatGe(pct, 0) THEN HoldBreakeven
    ELSE IF RatGe(pct, -5) THEN Watch
    ELSE RecommendStopLoss

\* A plausible slip: the percentage bands are tried before the stops.
get_strategy_bands_first(pl) ==
    LET pct == Get(pl, "profit_loss_pct", RatInt(0))
        current == Get(pl, "current_price", 0)
        stop_loss == Get(pl, "stop_loss", Some(0))
        stop_profit == Get(pl, "stop_profit", Some(0))
    IN  IF RatGe(pct, 10) THEN StrongGain
        ELSE IF Truthy(stop_loss) /\ current <= stop_loss[1] THEN StopLossHit
        ELSE IF Truthy(stop_profit) /\ current >= stop_profit[1] THEN StopProfitHit
        ELSE PctBand(pct)

get_strategy(pl) ==
    LET pct == Get(pl, "profit_loss_pct", RatInt(0))
        current == Get(pl, "current_price", 0)
        stop_loss == Get(pl, "stop_loss", Some(0))
        stop_profit == Get(pl, "stop_profit", Some(0))
    IN  IF Truthy(stop_loss) /\ current <= stop_loss[1] THEN StopLossHit
        ELSE IF Truthy(stop_profit) /\ current >= stop_profit[1] THEN StopProfitHit
        ELSE PctBand(pct)

-----------------------------------------------------------------------------
(* Bounds and input sets *)

\* profit_loss_pct inputs of the classification: -MaxPct .. MaxPct in halves
MaxPct == 12
\* prices and stops of the classification: 0 .. MaxStop
MaxStop == 3

\* An optional dict entry: <<>> leaves the key out, <<v>> sets it to v.
Opt(k, o) == IF o = <<>> THEN <<>> ELSE k :> o[1]
Optional(S) == {<<>>} \cup { <<v>> : v \in S }

PctInputs == { Rat(n, 2) : n \in (-2 * MaxPct) .. (2 * MaxPct) }
StopInputs == {None} \cup { Some(v) : v \in 0 .. MaxStop }

\* The records get_strategy may be given: every key is optional.
PlInputs ==
    { Opt("profit_loss_pct", p) @@ Opt("current_price", c)
        @@ Opt("stop_loss", sl) @@ Opt("stop_profit", sp) :
        p \in Optional(PctInputs), c \in Optional(0 .. MaxStop),
        sl \in Optional(StopInputs), sp \in Optional(StopInputs) }

-----------------------------------------------------------------------------
(* Specification of the classification alone *)

\* One call of get_strategy on the record the initial state holds.
GetStrategy ==
    /\ op = "init"
    /\ op' = "get_strategy"
    /\ ret' = get_strategy(arg)
    /\ UNCHANGED <<portfolio, trades, cache, now, arg, threads, fetcher, sent, config>>

\* The clock at construction, when last_request_time is set to 0: more
\* than 0.6 s after 0
Epoch == 10

InitStrategy ==
    /\ portfolio = <<>>
    /\ trades = <<>>
    /\ cache = <<>>
    /\ now = Epoch
    /\ op = "init"
    /\ arg \in PlInputs
    /\ ret = None
    /\ threads = <<>>
    /\ fetcher = [request_count |-> 0, last_request_time |-> 0]
    /\ sent = <<>>
    /\ config = <<>>

NextStrategy == GetStrategy
SpecStrategy == InitStrategy /\ [][NextStrategy]_vars

-----------------------------------------------------------------------------
(* C1: the classification *)

\* What get_strategy reads from its record, with the defaults of pl.get.
PlPct == Get(arg, "profit_loss_pct", RatInt(0))
PlPrice == Get(arg, "current_price", 0)
PlStopLoss == Get(arg, "stop_loss", Some(0))
PlStopProfit == Get(arg, "stop_profit", Some(0))

\* The label is the first match of the seven conditions, given whether each
\* stop condition matches.
FirstMatch(label, lossHit, profitHit, pct) ==
    /\ label \in Labels
    /\ (label = StopLossHit) <=> lossHit
    /\ (label = StopProfitHit) <=> (~lossHit /\ profitHit)
    /\ (label = StrongGain) <=> (~lossHit /\ ~profitHit /\ RatGe(pct, 10))
    /\ (label = Hold) <=>
          (~lossHit /\ ~profitHit /\ ~RatGe(pct, 10) /\ RatGe(pct, 5))
    /\ (label = HoldBreakeven) <=>
          (~lossHit /\ ~profitHit /\ ~RatGe(pct, 5) /\ RatGe(pct, 0))
    /\ (label = Watch) <=>
          (~lossHit /\ ~profitHit /\ ~RatGe(pct, 0) /\ RatGe(pct, -5))
    /\ (label = RecommendStopLoss) <=>
          (~lossHit /\ ~profitHit /\ ~RatGe(pct, -5))

\* C1 as stated: every record gets exactly one label, the first match of
\* price <= stop_loss, price >= stop_profit, pct >= 10, pct >= 5, pct >= 0,
\* pct >= -5, otherwise; a stop of zero is compared like any other stop
\* (an absent or null stop has no value to compare and matches nothing).
C1_AsStated ==
    op = "get_strategy" =>
        LET sl == Get(arg, "stop_loss", None)
            sp == Get(arg, "stop_profit", None)
        IN  FirstMatch(ret,
                       sl # None /\ PlPrice <= sl[1],
                       sp # None /\ PlPrice >= sp[1],
                       PlPct)

\* C1 amended: every record gets exactly one label, the first match in the
\* fixed order, where a stop condition matches only when that stop is set,
\* that is neither absent, null nor zero.
C1_FirstMatchWithSetStops ==
    op = "get_strategy" =>
        FirstMatch(ret,
                   PlStopLoss \notin {None, Some(0)} /\ PlPrice <= PlStopLoss[1],
                   PlStopProfit \notin {None, Some(0)} /\ PlPrice >= PlStopProfit[1],
                   PlPct)

\* A position at or below its stop-loss with pct >= 10 has been classified.
C1_Witness ==
    /\ op = "get_strategy"
    /\ PlStopLoss \notin {None, Some(0)}
    /\ PlPrice <= PlStopLoss[1]
    /\ RatGe(PlPct, 10)
    /\ ret = StopLossHit

-----------------------------------------------------------------------------
(* Calls: what a call returns or raises *)

Return(v) == [raised |-> "", value |-> v]
Raise(e) == [raised |-> e, value |-> None]

-----------------------------------------------------------------------------
(* PortfolioManager, src/data/portfolio.py *)

\* The table is the sequence of its rows in rowid order, each row with its
\* code.  Of the columns that add and update write the same way (name,
\* industry, application, buy_date) the row keeps name; of the snapshot
\* columns it keeps current_price, profit_loss and profit_loss_pct.  cost
\* and shares hold numbers.
Codes == {"2330", "2454"}

\* The codes of the rows of the table
StoredCodes(table) == { table[i].code : i \in DOMAIN table }

\* A plausible slip: the SELECT without its WHERE code = ?.
get_first(table, code) == IF table # <<>> THEN Some(table[1]) ELSE None

\* PortfolioManager.get: SELECT ... WHERE code = ?, fetchone
get(table, code) ==
    IF code \in StoredCodes(table)
    THEN Some(table[CHOOSE i \in DOMAIN table :
                       /\ table[i].code = code
                       /\ \A j \in DOMAIN table : table[j].code = code => i <= j])
    ELSE None

\* The row add writes.
PositionRow(code, data) ==
    [code |-> code,
     name |-> Get(data, "name", ""),
     cost |-> Get(data, "cost", 0),
     shares |-> Get(data, "shares", 1000),
     stop_loss |-> Get(data, "stop_loss", None),
     stop_profit |-> Get(data, "stop_profit", None),
     current_price |-> Get(data, "current_price", None),
     profit_loss |-> Get(data, "profit_loss", None),
     profit_loss_pct |-> Get(data, "profit_loss_pct", None)]

\* A plausible slip: a plain INSERT into a table without the UNIQUE code.
pm_add_insert(table, code, data) == Append(table, PositionRow(code, data))

\* PortfolioManager.add: INSERT OR REPLACE on code TEXT NOT NULL UNIQUE
\* deletes the row that holds the code and inserts the new row.
pm_add(table, code, data) ==
    Append(SelectSeq(table, LAMBDA row : row.code # code), PositionRow(code, data))

\* A plausible slip: update written as an upsert (no WHERE code = ?).
pm_update_upsert(table, code, data) == pm_add(table, code, data)

\* A plausible slip: update sets only the columns the data names.
pm_update_given_only(table, code, data) ==
    [i \in DOMAIN table |->
        IF table[i].code = code
        THEN [f \in DOMAIN table[i] |->
                 IF f \in DOMAIN data
                       \cap {"name", "cost", "shares", "stop_loss", "stop_profit"}
                 THEN data[f] ELSE table[i][f]]
        ELSE table[i]]

\* PortfolioManager.update: UPDATE ... WHERE code = ?
pm_update(table, code, data) ==
    [i \in DOMAIN table |->
        IF table[i].code = code
        THEN [table[i] EXCEPT !.name = Get(data, "name", ""),
                              !.cost = Get(data, "cost", 0),
                              !.shares = Get(data, "shares", 1000),
                              !.stop_loss = Get(data, "stop_loss", None),
                              !.stop_profit = Get(data, "stop_profit", None)]
        ELSE table[i]]

\* PortfolioManager.remove: DELETE ... WHERE code = ?
pm_remove(table, code) == SelectSeq(table, LAMBDA row : row.code # code)

\* profit_loss / cost_total * 100
DivPct(n, d) == IF d = 0 THEN Raise("ZeroDivisionError") ELSE Return(Rat(n * 100, d))

\* A plausible slip: the quotient without the cost_total > 0 guard.
calculate_profit_loss_unguarded(table, code, current_price) ==
    LET stock == get(table, code) IN
    IF stock = None THEN Return(None)
    ELSE LET cost == stock[1].cost
             shares == stock[1].shares
             cost_total == cost * shares
             current_total == current_price * shares
             profit_loss == current_total - cost_total
             pct == DivPct(profit_loss, cost_total)
         IN  IF pct.raised # "" THEN pct
             ELSE Return([code |-> code, name |-> stock[1].name, cost |-> cost,
                          shares |-> shares, current_price |-> current_price,
                          cost_total |-> cost_total,
                          current_total |-> current_total,
                          profit_loss |-> profit_loss,
                          profit_loss_pct |-> pct.value,
                          stop_loss |-> stock[1].stop_loss,
                          stop_profit |-> stock[1].stop_profit])

\* PortfolioManager.calculate_profit_loss
calculate_profit_loss(table, code, current_price) ==
    LET stock == get(table, code) IN
    IF stock = None THEN Return(None)
    ELSE LET cost == stock[1].cost
             shares == stock[1].shares
             cost_total == cost * shares
             current_total == current_price * shares
             profit_loss == current_total - cost_total
             pct == IF cost_total > 0 THEN DivPct(profit_loss, cost_total)
                    ELSE Return(RatInt(0))
         IN  IF pct.raised # "" THEN pct
             ELSE Return([code |-> code, name |-> stock[1].name, cost |-> cost,
                          shares |-> shares, current_price |-> current_price,
                          cost_total |-> cost_total,
                          current_total |-> current_total,
                          profit_loss |-> profit_loss,
                          profit_loss_pct |-> pct.value,
                          stop_loss |-> stock[1].stop_loss,
                          stop_profit |-> stock[1].stop_profit])

\* A plausible slip: the gain test as an elif of the loss test.
check_alert_elif(table, code, current_price, thresholds) ==
    LET pl == calculate_profit_loss(table, code, current_price) IN
    IF pl.raised # "" THEN pl
    ELSE IF pl.value = None THEN Return(None)
    ELSE LET pct == pl.value.profit_loss_pct
             loss == RatLe(pct, -Get(thresholds, "loss_threshold", 5))
             gain == ~loss /\ RatGe(pct, Get(thresholds, "gain_threshold", 10))
             alerts == (IF loss THEN <<"loss">> ELSE <<>>)
                       \o (IF gain THEN <<"gain">> ELSE <<>>)
         IN  IF alerts # <<>>
             THEN Return([code |-> code, name |-> pl.value.name,
                          price |-> current_price, profit_loss_pct |-> pct,
                          alerts |-> alerts])
             ELSE Return(None)

\* PortfolioManager.check_alert
check_alert(table, code, current_price, thresholds) ==
    LET pl == calculate_profit_loss(table, code, current_price) IN
    IF pl.raised # "" THEN pl
    ELSE IF pl.value = None THEN Return(None)
    ELSE LET pct == pl.value.profit_loss_pct
             loss == RatLe(pct, -Get(thresholds, "loss_threshold", 5))
             gain == RatGe(pct, Get(thresholds, "gain_threshold", 10))
             alerts == (IF loss THEN <<"loss">> ELSE <<>>)
                       \o (IF gain THEN <<"gain">> ELSE <<>>)
         IN  IF alerts # <<>>
             THEN Return([code |-> code, name |-> pl.value.name,
                          price |-> current_price, profit_loss_pct |-> pct,
                          alerts |-> alerts])
             ELSE Return(None)

-----------------------------------------------------------------------------
(* Specification of the profit/loss queries on one stored position *)

\* current_price inputs: 0 .. MaxPrice
MaxPrice == 24

CostInputs == {-1, 0, 8, 20, 100}
ShareInputs == {-1, 0, 1, 10}
ThresholdInputs ==
    { Opt("loss_threshold", l) @@ Opt("gain_threshold", g) :
        l \in Optional({-10, 0, 5, 10}), g \in Optional({-10, 0, 10, 20}) }

\* The dicts a position is added with.
PositionInputs ==
    { Opt("name", n) @@ Opt("cost", c) @@ Opt("shares", sh)
        @@ Opt("stop_loss", sl) @@ Opt("stop_profit", sp) :
        n \in {<<"TSMC">>}, c \in Optional(CostInputs), sh \in Optional(ShareInputs),
        sl \in Optional({Some(18)}), sp \in {<<>>} }

CalculateProfitLoss(code, current_price) ==
    /\ op = "init"
    /\ op' = "calculate_profit_loss"
    /\ arg' = [code |-> code, current_price |-> current_price]
    /\ ret' = calculate_profit_loss(portfolio, code, current_price)
    /\ UNCHANGED <<portfolio, trades, cache, now, threads, fetcher, sent, config>>

CheckAlert(code, current_price, thresholds) ==
    /\ op = "init"
    /\ op' = "check_alert"
    /\ arg' = [code |-> code, current_price |-> current_price,
               thresholds |-> thresholds]
    /\ ret' = check_alert(portfolio, code, current_price, thresholds)
    /\ UNCHANGED <<portfolio, trades, cache, now, threads, fetcher, sent, config>>

\* The table before the query: empty, or one position as add stored it.
InitProfit ==
    /\ portfolio \in {<<>>} \cup { pm_add(<<>>, "2330", d) : d \in PositionInputs }
    /\ trades = <<>>
    /\ cache = <<>>
    /\ now = Epoch
    /\ op = "init"
    /\ arg = None
    /\ ret = None
    /\ threads = <<>>
    /\ fetcher = [request_count |-> 0, last_request_time |-> 0]
    /\ sent = <<>>
    /\ config = <<>>

NextProfit ==
    \E code \in Codes, current_price \in 0 .. MaxPrice :
        \/ CalculateProfitLoss(code, current_price)
        \/ \E thresholds \in ThresholdInputs :
               CheckAlert(code, current_price, thresholds)

SpecProfit == InitProfit /\ [][NextProfit]_vars

-----------------------------------------------------------------------------
(* C2, C7: the profit/loss of a stored position and its alerts *)

\* The stored position the last query was about, and its cost total.
QueriedRow == get(portfolio, arg.code)[1]
QueriedCostTotal == QueriedRow.cost * QueriedRow.shares

\* C2: for a stored position calculate_profit_loss returns (it does not
\* raise) cost_total = cost*shares, current_total = price*shares,
\* profit_loss = current_total - cost_total and profit_loss_pct =
\* profit_loss/cost_total*100, which is 0 whenever cost_total <= 0.
C2_ProfitLoss ==
    (op = "calculate_profit_loss" /\ arg.code \in StoredCodes(portfolio)) =>
        /\ ret.raised = ""
        /\ ret.value # None
        /\ ret.value.cost_total = QueriedCostTotal
        /\ ret.value.current_total = arg.current_price * QueriedRow.shares
        /\ ret.value.profit_loss =
               ret.value.current_total - ret.value.cost_total
        /\ QueriedCostTotal > 0 =>
               ret.value.profit_loss_pct.num * QueriedCostTotal =
                   ret.value.profit_loss * 100 * ret.value.profit_loss_pct.den
        /\ QueriedCostTotal <= 0 => ret.value.profit_loss_pct = RatInt(0)

\* A position with a cost and no shares (cost_total = 0) has been priced.
C2_Witness ==
    /\ op = "calculate_profit_loss"
    /\ arg.code \in StoredCodes(portfolio)
    /\ QueriedRow.cost = 100
    /\ QueriedRow.shares = 0
    /\ arg.current_price > 0
    /\ ret.value.profit_loss_pct = RatInt(0)

\* The percentage check_alert compares, computed from the stored row.
QueriedPct ==
    IF QueriedCostTotal > 0
    THEN Rat((arg.current_price * QueriedRow.shares - QueriedCostTotal) * 100,
             QueriedCostTotal)
    ELSE RatInt(0)

Listed(a) ==
    /\ ret.value # None
    /\ \E i \in DOMAIN ret.value.alerts : ret.value.alerts[i] = a

\* C7: for a stored position the alert lists 'loss' exactly when
\* profit_loss_pct <= -loss_threshold (default 5) and 'gain' exactly when
\* profit_loss_pct >= gain_threshold (default 10), both when both hold, and
\* check_alert returns no alert exactly when neither holds.
C7_Alerts ==
    (op = "check_alert" /\ arg.code \in StoredCodes(portfolio)) =>
        LET lossDue == RatLe(QueriedPct, -Get(arg.thresholds, "loss_threshold", 5))
            gainDue == RatGe(QueriedPct, Get(arg.thresholds, "gain_threshold", 10))
        IN  /\ ret.raised = ""
            /\ Listed("loss") <=> lossDue
            /\ Listed("gain") <=> gainDue
            /\ (ret.value = None) <=> (~lossDue /\ ~gainDue)

\* Both alerts have fired together.
C7_Witness ==
    /\ op = "check_alert"
    /\ arg.code \in StoredCodes(portfolio)
    /\ ret.value # None
    /\ ret.value.alerts = <<"loss", "gain">>

-----------------------------------------------------------------------------
(* C16: the profit/loss queries on a code that is not stored *)

\* C16: calculate_profit_loss for a code that is not stored returns the
\* not-found signal (None), raises nothing and changes no stored position;
\* check_alert for such a code returns no alert (None), likewise.
C16_NotFound ==
    [][(/\ op' \in {"calculate_profit_loss", "check_alert"}
        /\ arg'.code \notin StoredCodes(portfolio))
       => (ret' = Return(None) /\ portfolio' = portfolio)]_vars

\* check_alert has been asked about a code that is not stored while another
\* position is.
C16_Witness ==
    /\ op = "check_alert"
    /\ arg.code \notin StoredCodes(portfolio)
    /\ portfolio # <<>>
    /\ ret = Return(None)

-----------------------------------------------------------------------------
(* The portfolio endpoints, src/app.py *)

\* A JSON response with its HTTP status.
Response(status, success) == Return([status |-> status, success |-> success])

\* reload_config rebuilds the managers over the same database file
\* (CREATE TABLE IF NOT EXISTS): the tables are as they were.

\* api_portfolio_add: body is request.json, None when the request has none
api_portfolio_add(table, body) ==
    IF body = None
    THEN [table |-> table, ret |-> Response(500, FALSE)]   \* AttributeError, caught
    ELSE LET code == Get(body[1], "code", "")
         IN  IF code = ""
             THEN [table |-> table, ret |-> Response(400, FALSE)]
             ELSE [table |-> pm_add(table, code, body[1]),
                   ret |-> Response(200, TRUE)]

\* api_portfolio_update
api_portfolio_update(table, code, body) ==
    IF body = None
    THEN [table |-> table, ret |-> Response(500, FALSE)]   \* AttributeError, caught
    ELSE [table |-> pm_update(table, code, body[1]), ret |-> Response(200, TRUE)]

\* api_portfolio_delete
api_portfolio_delete(table, code) ==
    [table |-> pm_remove(table, code), ret |-> Response(200, TRUE)]

\* The dicts the endpoints are given for a position.
PositionBodies ==
    { Opt("name", n) @@ Opt("cost", c) @@ Opt("stop_loss", sl) :
        n \in Optional({"TSMC"}), c \in Optional({20}),
        sl \in Optional({Some(18)}) }

ApiPortfolioAdd(body) ==
    LET r == api_portfolio_add(portfolio, body) IN
    /\ op' = "api_portfolio_add"
    /\ arg' = [body |-> body]
    /\ portfolio' = r.table
    /\ ret' = r.ret
    /\ UNCHANGED <<trades, cache, now, threads, fetcher, sent, config>>

ApiPortfolioUpdate(code, body) ==
    LET r == api_portfolio_update(portfolio, code, body) IN
    /\ op' = "api_portfolio_update"
    /\ arg' = [code |-> code, body |-> body]
    /\ portfolio' = r.table
    /\ ret' = r.ret
    /\ UNCHANGED <<trades, cache, now, threads, fetcher, sent, config>>

ApiPortfolioDelete(code) ==
    LET r == api_portfolio_delete(portfolio, code) IN
    /\ op' = "api_portfolio_delete"
    /\ arg' = [code |-> code]
    /\ portfolio' = r.table
    /\ ret' = r.ret
    /\ UNCHANGED <<trades, cache, now, threads, fetcher, sent, config>>

\* After construction: the tables exist and are empty.
InitEmpty ==
    /\ portfolio = <<>>
    /\ trades = <<>>
    /\ cache = <<>>
    /\ now = Epoch
    /\ op = "init"
    /\ arg = None
    /\ ret = None
    /\ threads = <<>>
    /\ fetcher = [request_count |-> 0, last_request_time |-> 0]
    /\ sent = <<>>
    /\ config = <<>>

NextPortfolio ==
    \/ \E c \in Optional(Codes), d \in PositionBodies :
           ApiPortfolioAdd(Some(Opt("code", c) @@ d))
    \/ ApiPortfolioAdd(None)
    \/ \E code \in Codes, d \in PositionBodies : ApiPortfolioUpdate(code, Some(d))
    \/ \E code \in Codes : ApiPortfolioUpdate(code, None)
    \/ \E code \in Codes : ApiPortfolioDelete(code)

SpecPortfolio == InitEmpty /\ [][NextPortfolio]_vars

-----------------------------------------------------------------------------
(* C8: update and remove of a code that is not stored *)

\* C8: an update or a delete request for a code that is not stored completes
\* without raising and leaves the table as it was: the same stored
\* positions, each with every field unchanged.
C8_UnknownCodeNoOp ==
    [][(/\ op' \in {"api_portfolio_update", "api_portfolio_delete"}
        /\ arg'.code \notin StoredCodes(portfolio))
       => (portfolio' = portfolio /\ ret'.raised = "")]_vars

\* An update with data for a code that is not stored has been served while
\* another position is stored.
C8_Witness ==
    /\ op = "api_portfolio_update"
    /\ arg.body # None
    /\ arg.code \notin StoredCodes(portfolio)
    /\ portfolio # <<>>
    /\ ret.value.status = 200

-----------------------------------------------------------------------------
(* The stored positions under add, update, remove, import and repricing *)

\* PortfolioManager.import_data: add for every item of the dict, in its
\* order.  items is the sequence of the dict's (code, data) pairs.
RECURSIVE import_data(_, _)
import_data(table, items) ==
    IF items = <<>> THEN table
    ELSE import_data(pm_add(table, Head(items)[1], Head(items)[2]), Tail(items))

\* PortfolioManager.update_price_and_analysis
update_price_and_analysis(table, code, price_data) ==
    LET stock == get(table, code)
        current_price == Get(price_data, "current_price", None)
        priced == stock # None /\ Truthy(current_price)
        cost_total == stock[1].cost * stock[1].shares
        profit_loss == current_price[1] * stock[1].shares - cost_total
        profit_loss_pct == IF cost_total > 0 THEN Rat(profit_loss * 100, cost_total)
                           ELSE RatInt(0)
    IN  [i \in DOMAIN table |->
            IF table[i].code = code
            THEN [table[i] EXCEPT
                     !.current_price = current_price,
                     !.profit_loss = IF priced THEN Some(profit_loss) ELSE None,
                     !.profit_loss_pct = IF priced THEN Some(profit_loss_pct) ELSE None]
            ELSE table[i]]

\* The dicts a position is added or updated with: cost and shares left to
\* their defaults or given, without or with a snapshot of their own.
PositionData ==
    { <<>>,
      [cost |-> 8, shares |-> 10],
      [cost |-> 20, shares |-> 10],
      [cost |-> 20, shares |-> 10, profit_loss |-> Some(30),
       profit_loss_pct |-> Some(RatInt(15))] }

\* The dicts import_data is given: one or two codes, in either order.
ImportInputs ==
    { <<<<c, [cost |-> 20, shares |-> 10]>>>> : c \in Codes }
    \cup { items \in { <<<<c1, <<>>>>, <<c2, [cost |-> 8, shares |-> 10]>>>> :
                          c1 \in Codes, c2 \in Codes } :
             items[1][1] # items[2][1] }

\* The price data of a repricing: the price missing, null, zero or set.
PriceData == { Opt("current_price", p) : p \in Optional({None, Some(0), Some(22)}) }

PmAdd(code, data) ==
    /\ op' = "add"
    /\ arg' = [code |-> code, data |-> data]
    /\ portfolio' = pm_add(portfolio, code, data)
    /\ ret' = Return(None)
    /\ UNCHANGED <<trades, cache, now, threads, fetcher, sent, config>>

PmUpdate(code, data) ==
    /\ op' = "update"
    /\ arg' = [code |-> code, data |-> data]
    /\ portfolio' = pm_update(portfolio, code, data)
    /\ ret' = Return(None)
    /\ UNCHANGED <<trades, cache, now, threads, fetcher, sent, config>>

PmRemove(code) ==
    /\ op' = "remove"
    /\ arg' = [code |-> code]
    /\ portfolio' = pm_remove(portfolio, code)
    /\ ret' = Return(None)
    /\ UNCHANGED <<trades, cache, now, threads, fetcher, sent, config>>

PmImportData(items) ==
    /\ op' = "import_data"
    /\ arg' = [items |-> items]
    /\ portfolio' = import_data(portfolio, items)
    /\ ret' = Return(None)
    /\ UNCHANGED <<trades, cache, now, threads, fetcher, sent, config>>

PmUpdatePriceAndAnalysis(code, price_data) ==
    /\ op' = "update_price_and_analysis"
    /\ arg' = [code |-> code, price_data |-> price_data]
    /\ portfolio' = update_price_and_analysis(portfolio, code, price_data)
    /\ ret' = Return(None)
    /\ UNCHANGED <<trades, cache, now, threads, fetcher, sent, config>>

NextPositions ==
    \/ \E code \in Codes, data \in PositionData : PmAdd(code, data)
    \/ \E code \in Codes, data \in PositionData : PmUpdate(code, data)
    \/ \E code \in Codes : PmRemove(code)
    \/ \E items \in ImportInputs : PmImportData(items)
    \/ \E code \in Codes, price_data \in PriceData :
           PmUpdatePriceAndAnalysis(code, price_data)

SpecPositions == InitEmpty /\ [][NextPositions]_vars

-----------------------------------------------------------------------------
(* C11: one position per code *)

\* No two rows of the table hold the same code.
OnePerCode(table) ==
    \A i, j \in DOMAIN table : table[i].code = table[j].code => i = j

\* C11: after every add, update, remove and import_data at most one position
\* is stored per code, and an add on a code that is stored replaces that
\* position: no row is added, and get(code) then returns the fields the add
\* supplied.
C11_OnePositionPerCode ==
    [][/\ OnePerCode(portfolio')
       /\ (op' = "add" /\ arg'.code \in StoredCodes(portfolio)) =>
             /\ Len(portfolio') = Len(portfolio)
             /\ \A f \in DOMAIN arg'.data :
                   get(portfolio', arg'.code)[1][f] = arg'.data[f]]_vars

\* An add has stored a position next to the position of the other code, and
\* its row holds the cost and the shares of the add.
C11_Witness ==
    /\ op = "add"
    /\ Len(portfolio) = 2
    /\ "cost" \in DOMAIN arg.data
    /\ "shares" \in DOMAIN arg.data
    /\ get(portfolio, arg.code) # None
    /\ get(portfolio, arg.code)[1].cost = arg.data.cost
    /\ get(portfolio, arg.code)[1].shares = arg.data.shares
    /\ get(portfolio, arg.code)[1].profit_loss = None

-----------------------------------------------------------------------------
(* C12: the profit/loss snapshot of a stored position *)

\* C12: every stored position whose profit/loss snapshot is set has
\* profit_loss_pct = profit_loss / (cost*shares) * 100 for its current cost
\* and shares when cost*shares > 0, and profit_loss_pct = 0 otherwise.
C12_SnapshotInvariant ==
    \A i \in DOMAIN portfolio :
        LET row == portfolio[i]
            cost_total == row.cost * row.shares
        IN  (row.profit_loss # None /\ row.profit_loss_pct # None) =>
                IF cost_total > 0
                THEN row.profit_loss_pct[1].num * cost_total
                         = row.profit_loss[1] * 100 * row.profit_loss_pct[1].den
                ELSE row.profit_loss_pct[1] = RatInt(0)

-----------------------------------------------------------------------------
(* Concurrent position writes, src/app.py and src/data/portfolio.py *)

\* Each request is served by a thread of its own.  add and update run one
\* statement on a connection of their own and commit it: the statement takes
\* the write lock of the database file, the commit applies it and releases
\* the lock.  A statement that finds the lock taken waits for it, and gives up
\* with OperationalError (database is locked) when the wait times out.
\* A thread is [kind, code, body, pc, seq, response]: pc is "received",
\* "executed" (the lock is held) or "done"; seq numbers the commits in their
\* order, 0 for none.

\* requests served at the same time
MaxThreads == 2

Threads == 1 .. MaxThreads

\* The bodies of the write requests.
WriteBodies ==
    { [name |-> "A", cost |-> 8, shares |-> 10, current_price |-> Some(22)],
      [name |-> "B", cost |-> 20, stop_loss |-> Some(18)] }

\* The thread that holds the write lock, if any.
LockHolders == { t \in DOMAIN threads : threads[t].pc = "executed" }

\* The number of the last commit.
RECURSIVE MaxSeq(_)
MaxSeq(T) ==
    IF T = {} THEN 0
    ELSE LET t == CHOOSE t \in T : TRUE
             rest == MaxSeq(T \ {t})
         IN  IF threads[t].seq > rest THEN threads[t].seq ELSE rest

\* A write request arrives: api_portfolio_add or api_portfolio_update.
Receive(t, kind, code, body) ==
    /\ t \notin DOMAIN threads
    /\ threads' = (t :> [kind |-> kind, code |-> code, body |-> body,
                         pc |-> "received", seq |-> 0, response |-> None])
                  @@ threads
    /\ UNCHANGED <<portfolio, trades, cache, now, op, arg, ret, fetcher, sent, config>>

\* cursor.execute: the statement takes the write lock.
Execute(t) ==
    /\ t \in DOMAIN threads
    /\ threads[t].pc = "received"
    /\ LockHolders = {}
    /\ threads' = [threads EXCEPT ![t].pc = "executed"]
    /\ UNCHANGED <<portfolio, trades, cache, now, op, arg, ret, fetcher, sent, config>>

\* cursor.execute gives up waiting for the lock; the handler's except
\* clause answers 500.
Locked(t) ==
    /\ t \in DOMAIN threads
    /\ threads[t].pc = "received"
    /\ LockHolders # {}
    /\ threads' = [threads EXCEPT ![t].pc = "done",
                                  ![t].response = Response(500, FALSE)]
    /\ UNCHANGED <<portfolio, trades, cache, now, op, arg, ret, fetcher, sent, config>>

\* conn.commit, and the rest of the handler.
Commit(t) ==
    /\ t \in DOMAIN threads
    /\ threads[t].pc = "executed"
    /\ LET r == IF threads[t].kind = "add"
                THEN api_portfolio_add(portfolio,
                         Some([code |-> threads[t].code] @@ threads[t].body))
                ELSE api_portfolio_update(portfolio, threads[t].code,
                                          Some(threads[t].body))
       IN  /\ portfolio' = r.table
           /\ threads' = [threads EXCEPT ![t].pc = "done",
                                         ![t].seq = MaxSeq(DOMAIN threads) + 1,
                                         ![t].response = r.ret]
    /\ UNCHANGED <<trades, cache, now, op, arg, ret, fetcher, sent, config>>

NextWriters ==
    \/ \E t \in Threads, kind \in {"add", "update"}, code \in Codes,
          body \in WriteBodies : Receive(t, kind, code, body)
    \/ \E t \in Threads : Execute(t)
    \/ \E t \in Threads : Locked(t)
    \/ \E t \in Threads : Commit(t)

SpecWriters == InitEmpty /\ [][NextWriters]_vars

-----------------------------------------------------------------------------
(* C13: last write wins *)

\* The columns a write sets.
FieldSet(kind) ==
    IF kind = "add"
    THEN {"code", "name", "cost", "shares", "stop_loss", "stop_profit",
          "current_price", "profit_loss", "profit_loss_pct"}
    ELSE {"name", "cost", "shares", "stop_loss", "stop_profit"}

\* The committed writes of a code, and the last of them.
Committed(code) ==
    { t \in DOMAIN threads : threads[t].seq > 0 /\ threads[t].code = code }
LastCommitted(code) ==
    CHOOSE t \in Committed(code) : threads[t].seq = MaxSeq(Committed(code))

\* The value a write gives a column: the body's, or the column's default.
Written(t, f) ==
    CASE f = "code" -> threads[t].code
      [] f = "name" -> Get(threads[t].body, f, "")
      [] f = "cost" -> Get(threads[t].body, f, 0)
      [] f = "shares" -> Get(threads[t].body, f, 1000)
      [] OTHER -> Get(threads[t].body, f, None)

\* C13: in every reachable state of concurrent add and update requests, the
\* position of a code holds in every column the last committed write sets
\* that write's value (so no column set of a write mixes two writes), and
\* a code some add has committed is stored in exactly one row.
C13_LastWriteWins ==
    \A code \in Codes :
        /\ Cardinality({ i \in DOMAIN portfolio : portfolio[i].code = code })
              = IF \E t \in Committed(code) : threads[t].kind = "add" THEN 1 ELSE 0
        /\ (Committed(code) # {} /\ code \in StoredCodes(portfolio)) =>
              \A f \in FieldSet(threads[LastCommitted(code)].kind) :
                  get(portfolio, code)[1][f] = Written(LastCommitted(code), f)

\* An add and an update of the same code have both committed, the update
\* last: the row holds the update's name and the add's price.
C13_Witness ==
    /\ DOMAIN threads = {1, 2}
    /\ threads[1].code = threads[2].code
    /\ threads[1].kind = "add" /\ threads[1].seq = 1
    /\ threads[2].kind = "update" /\ threads[2].seq = 2
    /\ threads[1].body # threads[2].body
    /\ get(portfolio, threads[1].code)[1].name = threads[2].body.name
    /\ get(portfolio, threads[1].code)[1].current_price = Some(22)

-----------------------------------------------------------------------------
(* TradeJournal, src/data/trade_journal.py *)

\* The table is the sequence of its rows in insertion order.  A row's id n
\* stands for the text "TRD" followed by n (zero-filled to three digits).  A
\* date text is [year, day, ok]: the year its first four characters spell,
\* the day of that year, and whether strptime('%Y-%m-%d') accepts it.  The
\* free-text columns, which add_trade copies as given, are left out.

Success == "success"     \* the result label of a successful trade
Failure == "failure"     \* the result label of a failed trade

\* Python truthiness of a text-or-None
TruthyStr(x) == x # None /\ x[1] # ""

\* TradeJournal._generate_id: count + 1
generate_id(table) == Len(table) + 1

\* datetime.strptime: accepted or ValueError
Parses(d) == d[1].ok
\* The days of the years 2000 .. year - 1
IsLeap(year) == (year % 4 = 0 /\ year % 100 # 0) \/ year % 400 = 0
RECURSIVE DaysBefore(_)
DaysBefore(year) ==
    IF year <= 2000 THEN 0
    ELSE DaysBefore(year - 1) + (IF IsLeap(year - 1) THEN 366 ELSE 365)

\* A plausible slip: every year taken as 365 days.
DaysBetween365(buy, sell) ==
    (sell[1].year - buy[1].year) * 365 + sell[1].day - buy[1].day

\* (sell - buy).days
DaysBetween(buy, sell) ==
    (DaysBefore(sell[1].year) + sell[1].day) - (DaysBefore(buy[1].year) + buy[1].day)

\* A plausible slip: the profit taken as cost minus revenue.
DerivedFieldsSignSlip(T) ==
    LET buy_price == Get(T, "buy_price", None)
        sell_price == Get(T, "sell_price", None)
        shares == Get(T, "shares", None)
        buy_date == Get(T, "buy_date", None)
        sell_date == Get(T, "sell_date", None)
        total_cost == IF Truthy(buy_price) /\ Truthy(shares)
                      THEN Some(buy_price[1] * shares[1])
                      ELSE Get(T, "total_cost", None)
        sold == Truthy(sell_price) /\ Truthy(shares)
        total_revenue == IF sold THEN Some(sell_price[1] * shares[1])
                         ELSE Get(T, "total_revenue", None)
        computed == sold /\ Truthy(total_cost)
        pl == IF computed THEN total_cost[1] - total_revenue[1] ELSE 0
    IN  [total_cost |-> total_cost,
         total_revenue |-> total_revenue,
         profit_loss |-> IF computed THEN Some(pl) ELSE Get(T, "profit_loss", None),
         profit_loss_pct |-> IF computed THEN Some(Rat(pl * 100, total_cost[1]))
                             ELSE Get(T, "profit_loss_pct", None),
         holding_days |-> IF /\ buy_date # None
                             /\ sell_date # None
                             /\ Parses(buy_date)
                             /\ Parses(sell_date)
                          THEN Some(DaysBetween(buy_date, sell_date))
                          ELSE Get(T, "holding_days", None)]

\* The derived fields add_trade writes into trade_data before the insert.
DerivedFields(T) ==
    LET buy_price == Get(T, "buy_price", None)
        sell_price == Get(T, "sell_price", None)
        shares == Get(T, "shares", None)
        buy_date == Get(T, "buy_date", None)
        sell_date == Get(T, "sell_date", None)
        total_cost == IF Truthy(buy_price) /\ Truthy(shares)
                      THEN Some(buy_price[1] * shares[1])
                      ELSE Get(T, "total_cost", None)
        sold == Truthy(sell_price) /\ Truthy(shares)
        total_revenue == IF sold THEN Some(sell_price[1] * shares[1])
                         ELSE Get(T, "total_revenue", None)
        computed == sold /\ Truthy(total_cost)
        pl == IF computed THEN total_revenue[1] - total_cost[1] ELSE 0
    IN  [total_cost |-> total_cost,
         total_revenue |-> total_revenue,
         profit_loss |-> IF computed THEN Some(pl) ELSE Get(T, "profit_loss", None),
         profit_loss_pct |-> IF computed THEN Some(Rat(pl * 100, total_cost[1]))
                             ELSE Get(T, "profit_loss_pct", None),
         holding_days |-> IF /\ buy_date # None
                             /\ sell_date # None
                             /\ Parses(buy_date)
                             /\ Parses(sell_date)
                          THEN Some(DaysBetween(buy_date, sell_date))
                          ELSE Get(T, "holding_days", None)]

\* The row add_trade inserts.
NewRow(id, T) ==
    LET d == DerivedFields(T) IN
    [id |-> id,
     code |-> Get(T, "code", None),
     buy_date |-> Get(T, "buy_date", None),
     buy_price |-> Get(T, "buy_price", None),
     sell_date |-> Get(T, "sell_date", None),
     sell_price |-> Get(T, "sell_price", None),
     shares |-> Get(T, "shares", None),
     total_cost |-> d.total_cost,
     total_revenue |-> d.total_revenue,
     profit_loss |-> d.profit_loss,
     profit_loss_pct |-> d.profit_loss_pct,
     holding_days |-> d.holding_days,
     entry_strategy_id |-> Get(T, "entry_strategy_id", None),
     result |-> Get(T, "result", None),
     discipline |-> Get(T, "discipline", None)]

Ids(table) == { table[i].id : i \in DOMAIN table }

\* A plausible slip: the id is that of the last stored trade and the insert
\* replaces the row that holds it.
add_trade_replace(table, T) ==
    LET trade_id == IF table = <<>> THEN 1 ELSE Len(table) IN
    IF trade_id \in Ids(table)
    THEN [table |-> [i \in DOMAIN table |->
                        IF table[i].id = trade_id THEN NewRow(trade_id, T)
                        ELSE table[i]],
          ret |-> Return(trade_id)]
    ELSE [table |-> Append(table, NewRow(trade_id, T)), ret |-> Return(trade_id)]

\* A plausible slip: the id returned is generated anew after the insert.
add_trade_second_id(table, T) ==
    LET trade_id == generate_id(table)
        after == Append(table, NewRow(trade_id, T))
    IN  IF trade_id \in Ids(table)
        THEN [table |-> table, ret |-> Raise("IntegrityError")]
        ELSE [table |-> after, ret |-> Return(generate_id(after))]

\* TradeJournal.add_trade: the new table and what the call returns
add_trade(table, T) ==
    LET trade_id == generate_id(table) IN
    IF trade_id \in Ids(table)
    THEN [table |-> table, ret |-> Raise("IntegrityError")]   \* id TEXT PRIMARY KEY
    ELSE [table |-> Append(table, NewRow(trade_id, T)), ret |-> Return(trade_id)]

\* buy_date LIKE 'year%': the digits of year begin the date text
LikeYear(date, year) ==
    /\ date # None
    /\ \E k \in 0 .. 3 : date[1].year \div (10 ^ k) = year

\* The WHERE clause get_trades builds from its filters.
Matches(row, filters) ==
    LET code == Get(filters, "code", None)
        year == Get(filters, "year", None)
        discipline == Get(filters, "discipline", None)
        result == Get(filters, "result", None)
    IN  /\ TruthyStr(code) => row.code = code
        /\ Truthy(year) =>
              IF Get(filters, "type", None) = Some("buy")
              THEN LikeYear(row.buy_date, year[1])
              ELSE LikeYear(row.buy_date, year[1]) \/ LikeYear(row.sell_date, year[1])
        /\ TruthyStr(discipline) => row.discipline = discipline
        /\ TruthyStr(result) => row.result = result

\* ORDER BY buy_date DESC: NULL sorts last; rows with equal dates keep the
\* table's order.
DateKey(d) == IF d = None THEN -1 ELSE d[1].year * 1000 + d[1].day

RECURSIVE OrderByBuyDateDesc(_)
OrderByBuyDateDesc(rows) ==
    IF rows = <<>> THEN <<>>
    ELSE LET top == CHOOSE i \in DOMAIN rows :
                        \A j \in DOMAIN rows :
                            \/ DateKey(rows[j].buy_date) < DateKey(rows[i].buy_date)
                            \/ /\ DateKey(rows[j].buy_date) = DateKey(rows[i].buy_date)
                               /\ i <= j
             rest == [k \in 1 .. Len(rows) - 1 |->
                          IF k < top THEN rows[k] ELSE rows[k + 1]]
         IN  <<rows[top]>> \o OrderByBuyDateDesc(rest)

\* TradeJournal.get_trades
get_trades(table, filters) ==
    OrderByBuyDateDesc(SelectSeq(table, LAMBDA row : Matches(row, filters)))

\* The methods class TradeJournal defines.
TradeJournalMethods ==
    {"__init__", "_init_db", "_generate_id", "add_trade", "get_trades",
     "analyze_performance", "_analyze_discipline", "_analyze_strategy",
     "import_trades", "backup"}

\* api_trade_update: tj.update_trade inside try/except Exception
api_trade_update(table, trade_id, body) ==
    IF "update_trade" \in TradeJournalMethods
    THEN [table |-> table, ret |-> Response(200, TRUE)]
    ELSE [table |-> table, ret |-> Response(500, FALSE)]   \* AttributeError, caught

\* api_trade_delete: tj.delete_trade with no try around it
api_trade_delete(table, trade_id) ==
    IF "delete_trade" \in TradeJournalMethods
    THEN [table |-> table, ret |-> Response(200, TRUE)]
    ELSE [table |-> table, ret |-> Raise("AttributeError")]

-----------------------------------------------------------------------------
(* Specifications of the trade journal *)

\* rows of the trades table
MaxTrades == 2

BuyDate == Some([year |-> 2025, day |-> 10, ok |-> TRUE])     \* '2025-01-10'
SellDate == Some([year |-> 2025, day |-> 74, ok |-> TRUE])    \* '2025-03-15'

\* The derived fields a caller may put into the trade data itself.
SuppliedInputs ==
    { <<>>, [total_cost |-> Some(7), profit_loss |-> Some(3),
             profit_loss_pct |-> Some(RatInt(1))] }

\* Trade data for add_trade: prices and shares missing, zero or set.
TradeInputs ==
    { [code |-> Some(c), buy_date |-> BuyDate, sell_date |-> SellDate]
        @@ Opt("buy_price", bp) @@ Opt("sell_price", sp) @@ Opt("shares", sh) @@ d :
        c \in Codes,
        bp \in Optional({None, Some(0), Some(1050)}),
        sp \in Optional({None, Some(0), Some(1180)}),
        sh \in Optional({None, Some(0), Some(1000)}),
        d \in SuppliedInputs }

\* The same with fewer values, for runs that fill the table.
JournalInputs ==
    { T \in TradeInputs :
        /\ "buy_price" \in DOMAIN T /\ "sell_price" \in DOMAIN T /\ "shares" \in DOMAIN T
        /\ T.sell_price # Some(0)
        /\ T.shares # Some(0) }

AddTrade(T) ==
    LET r == add_trade(trades, T) IN
    /\ Len(trades) < MaxTrades
    /\ op' = "add_trade"
    /\ arg' = T
    /\ trades' = r.table
    /\ ret' = r.ret
    /\ UNCHANGED <<portfolio, cache, now, threads, fetcher, sent, config>>

GetTrades(filters) ==
    /\ op' = "get_trades"
    /\ arg' = filters
    /\ ret' = Return(get_trades(trades, filters))
    /\ UNCHANGED <<portfolio, trades, cache, now, threads, fetcher, sent, config>>

ApiTradeUpdate(trade_id, body) ==
    LET r == api_trade_update(trades, trade_id, body) IN
    /\ op' = "api_trade_update"
    /\ arg' = [trade_id |-> trade_id, body |-> body]
    /\ trades' = r.table
    /\ ret' = r.ret
    /\ UNCHANGED <<portfolio, cache, now, threads, fetcher, sent, config>>

ApiTradeDelete(trade_id) ==
    LET r == api_trade_delete(trades, trade_id) IN
    /\ op' = "api_trade_delete"
    /\ arg' = [trade_id |-> trade_id]
    /\ trades' = r.table
    /\ ret' = r.ret
    /\ UNCHANGED <<portfolio, cache, now, threads, fetcher, sent, config>>

\* One add_trade on the empty table, over all the trade data.
NextAddTrade == op = "init" /\ \E T \in TradeInputs : AddTrade(T)
SpecAddTrade == InitEmpty /\ [][NextAddTrade]_vars

\* A read or a refused request leaves the table as it is, so every state is
\* reached by the writes first and one such request last.
Writing == op \in {"init", "add_trade"}

NextJournal ==
    \/ Writing /\ \E T \in JournalInputs : AddTrade(T)
    \/ Writing /\ \E f \in {<<>>} \cup { [code |-> Some(c)] : c \in Codes } : GetTrades(f)
    \/ Writing /\ \E id \in 1 .. MaxTrades + 1 : ApiTradeUpdate(id, Some(<<>>))
    \/ Writing /\ \E id \in 1 .. MaxTrades + 1 : ApiTradeDelete(id)

SpecJournal == InitEmpty /\ [][NextJournal]_vars

-----------------------------------------------------------------------------
(* C3, C4: the derived fields of a trade *)

\* The row the last add_trade stored, and the raw fields it was given.
AddedRow == trades[Len(trades)]
RawBuyPrice(T) == Get(T, "buy_price", None)
RawSellPrice(T) == Get(T, "sell_price", None)
RawShares(T) == Get(T, "shares", None)

\* pct is pl / cost * 100
IsPctOf(pct, pl, cost) == pct # None /\ pct[1].num * cost = pl * 100 * pct[1].den

\* C3 as stated: total_cost = buy_price*shares when both are present,
\* total_revenue = sell_price*shares when both are present, profit_loss and
\* profit_loss_pct from the two totals when both exist, and the profit/loss
\* fields unset when a total is missing.
C3_AsStated ==
    (op = "add_trade" /\ ret.raised = "") =>
        LET bp == RawBuyPrice(arg)
            sp == RawSellPrice(arg)
            sh == RawShares(arg)
            hasCost == bp # None /\ sh # None
            hasRevenue == sp # None /\ sh # None
        IN  /\ hasCost => AddedRow.total_cost = Some(bp[1] * sh[1])
            /\ hasRevenue => AddedRow.total_revenue = Some(sp[1] * sh[1])
            /\ (hasCost /\ hasRevenue) =>
                  /\ AddedRow.profit_loss = Some(sp[1] * sh[1] - bp[1] * sh[1])
                  /\ IsPctOf(AddedRow.profit_loss_pct,
                             sp[1] * sh[1] - bp[1] * sh[1], bp[1] * sh[1])
            /\ ~(hasCost /\ hasRevenue) =>
                  /\ AddedRow.profit_loss = None
                  /\ AddedRow.profit_loss_pct = None

\* C3 amended: total_cost = buy_price*shares when both are present and not
\* zero, total_revenue = sell_price*shares when both are present and not
\* zero, profit_loss = total_revenue - total_cost and profit_loss_pct =
\* profit_loss/total_cost*100 when the revenue was so computed and the stored
\* total_cost is not zero; a field that is not computed holds what the trade
\* data supplied for it and is unset when it supplied nothing.  For 1050,
\* 1180 and 1000 shares: 1,050,000 / 1,180,000 / 130,000 / about 12.38.
C3_DerivedFields ==
    (op = "add_trade" /\ ret.raised = "") =>
        LET bp == RawBuyPrice(arg)
            sp == RawSellPrice(arg)
            sh == RawShares(arg)
            hasCost == bp \notin {None, Some(0)} /\ sh \notin {None, Some(0)}
            hasRevenue == sp \notin {None, Some(0)} /\ sh \notin {None, Some(0)}
            hasProfit == hasRevenue /\ AddedRow.total_cost \notin {None, Some(0)}
        IN  /\ AddedRow.total_cost =
                  IF hasCost THEN Some(bp[1] * sh[1]) ELSE Get(arg, "total_cost", None)
            /\ AddedRow.total_revenue =
                  IF hasRevenue THEN Some(sp[1] * sh[1])
                  ELSE Get(arg, "total_revenue", None)
            /\ hasProfit =>
                  /\ AddedRow.profit_loss =
                         Some(AddedRow.total_revenue[1] - AddedRow.total_cost[1])
                  /\ IsPctOf(AddedRow.profit_loss_pct, AddedRow.profit_loss[1],
                             AddedRow.total_cost[1])
            /\ ~hasProfit =>
                  /\ AddedRow.profit_loss = Get(arg, "profit_loss", None)
                  /\ AddedRow.profit_loss_pct = Get(arg, "profit_loss_pct", None)
            /\ (bp = Some(1050) /\ sp = Some(1180) /\ sh = Some(1000)) =>
                  /\ AddedRow.total_cost = Some(1050000)
                  /\ AddedRow.total_revenue = Some(1180000)
                  /\ AddedRow.profit_loss = Some(130000)
                  /\ AddedRow.profit_loss_pct[1].num * 1000
                         >= 12375 * AddedRow.profit_loss_pct[1].den
                  /\ AddedRow.profit_loss_pct[1].num * 1000
                         < 12385 * AddedRow.profit_loss_pct[1].den

\* The trade bought at 1050 and sold at 1180, 1000 shares, has been added.
C3_Witness ==
    /\ op = "add_trade"
    /\ RawBuyPrice(arg) = Some(1050)
    /\ RawSellPrice(arg) = Some(1180)
    /\ RawShares(arg) = Some(1000)
    /\ AddedRow.profit_loss = Some(130000)

\* The values recomputed from the raw fields of trade data T.
RecomputedCost(T) ==
    IF RawBuyPrice(T) # None /\ RawShares(T) # None
    THEN Some(RawBuyPrice(T)[1] * RawShares(T)[1])
    ELSE None
RecomputedProfit(T) ==
    IF RawBuyPrice(T) # None /\ RawSellPrice(T) # None /\ RawShares(T) # None
    THEN Some(RawSellPrice(T)[1] * RawShares(T)[1]
              - RawBuyPrice(T)[1] * RawShares(T)[1])
    ELSE None

\* get_trades, called right after add_trade(T) with a filter on T's code,
\* returns the record with the id add_trade returned, and that record holds
\* the recomputed total_cost and profit_loss.
RoundTrip ==
    \E i \in DOMAIN ret'.value :
        /\ ret'.value[i].id = ret.value
        /\ ret'.value[i].total_cost = RecomputedCost(arg)
        /\ ret'.value[i].profit_loss = RecomputedProfit(arg)

AddThenGet ==
    /\ op = "add_trade"
    /\ ret.raised = ""
    /\ op' = "get_trades"
    /\ Get(arg', "code", None) = arg.code

RawOnly(T) ==
    /\ Some(0) \notin {RawBuyPrice(T), RawSellPrice(T), RawShares(T)}
    /\ DOMAIN T \cap {"total_cost", "total_revenue", "profit_loss",
                      "profit_loss_pct"} = {}

-----------------------------------------------------------------------------
(* C9: trade update and delete requests *)

\* C9: a trade update or delete request, for a known or an unknown id, ends
\* without an uncaught exception, and leaves every trade other than the
\* addressed one as it was.
C9_NoCrash ==
    [][op' \in {"api_trade_update", "api_trade_delete"} =>
        /\ ret'.raised = ""
        /\ \A i \in DOMAIN trades :
              trades[i].id # arg'.trade_id =>
                  \E j \in DOMAIN trades' : trades'[j] = trades[i]]_vars

-----------------------------------------------------------------------------
(* TradeJournal.analyze_performance, src/data/trade_journal.py *)

\* Python truthiness of a quotient-or-None
TruthyRat(x) == x # None /\ x[1].num # 0

\* value or 0
OrZero(x) == IF x = None THEN 0 ELSE x[1]
OrZeroRat(x) == IF x = None THEN RatInt(0) ELSE x[1]

\* sum([t.get('profit_loss', 0) or 0 for t in trades])
RECURSIVE SumProfitLoss(_)
SumProfitLoss(rows) ==
    IF rows = <<>> THEN 0
    ELSE OrZero(Head(rows).profit_loss) + SumProfitLoss(Tail(rows))

\* sum([t.get('profit_loss_pct', 0) or 0 for t in trades])
RECURSIVE SumProfitLossPct(_)
SumProfitLossPct(rows) ==
    IF rows = <<>> THEN RatInt(0)
    ELSE RatAdd(OrZeroRat(Head(rows).profit_loss_pct), SumProfitLossPct(Tail(rows)))

\* len([t for t in trades if t.get('result') == label])
CountResult(rows, label) ==
    Cardinality({ i \in DOMAIN rows : rows[i].result = Some(label) })

\* (success / total * 100) if total > 0 else 0
Rate(success, total) == IF total > 0 THEN Rat(success * 100, total) ELSE RatInt(0)

\* A plausible slip: the average taken over the trades that have a percentage.
AvgProfitLossPctOfClosed(rows) ==
    LET closed == SelectSeq(rows, LAMBDA t : TruthyRat(t.profit_loss_pct)) IN
    IF Len(closed) > 0
    THEN RatDivInt(SumProfitLossPct(closed), Len(closed))
    ELSE RatInt(0)

\* avg_pl_pct of analyze_performance
AvgProfitLossPct(rows) ==
    IF Len(rows) > 0
    THEN RatDivInt(SumProfitLossPct(SelectSeq(rows, LAMBDA t : TruthyRat(t.profit_loss_pct))),
                   Len(rows))
    ELSE RatInt(0)

\* A plausible slip: the group's rate left as a fraction.
GroupStatsFraction(trades_list) ==
    LET total == Len(trades_list)
        success == CountResult(trades_list, Success)
    IN  [count |-> total,
         success_count |-> success,
         success_rate |-> IF total > 0 THEN Rat(success, total) ELSE RatInt(0),
         avg_profit_loss_pct |->
             IF total > 0 THEN RatDivInt(SumProfitLossPct(trades_list), total)
             ELSE RatInt(0),
         total_profit_loss |-> SumProfitLoss(trades_list)]

\* The entry _analyze_discipline and _analyze_strategy build for one group.
GroupStats(trades_list) ==
    LET total == Len(trades_list)
        success == CountResult(trades_list, Success)
    IN  [count |-> total,
         success_count |-> success,
         success_rate |-> Rate(success, total),
         avg_profit_loss_pct |->
             IF total > 0 THEN RatDivInt(SumProfitLossPct(trades_list), total)
             ELSE RatInt(0),
         total_profit_loss |-> SumProfitLoss(trades_list)]

\* groups[trade.get(column, ...)].append(trade), then one entry per group.
\* A row read from the table has every column, so a NULL label is the key
\* None and the default of get is never taken.
GroupBy(rows, column) ==
    [ label \in { rows[i][column] : i \in DOMAIN rows } |->
        GroupStats(SelectSeq(rows, LAMBDA t : t[column] = label)) ]

analyze_discipline(rows) == GroupBy(rows, "discipline")
analyze_strategy(rows) == GroupBy(rows, "entry_strategy_id")

\* TradeJournal.analyze_performance
analyze_performance(table, year) ==
    LET filters == IF Truthy(year) THEN [year |-> year] ELSE <<>>
        rows == get_trades(table, filters)
        total == Len(rows)
        success == CountResult(rows, Success)
    IN  IF rows = <<>>
        THEN [total_trades |-> 0,
              success_count |-> 0,
              failure_count |-> 0,
              success_rate |-> RatInt(0),
              total_profit_loss |-> 0,
              avg_profit_loss_pct |-> RatInt(0)]
        ELSE [total_trades |-> total,
              success_count |-> success,
              failure_count |-> CountResult(rows, Failure),
              success_rate |-> Rate(success, total),
              total_profit_loss |->
                  SumProfitLoss(SelectSeq(rows, LAMBDA t : Truthy(t.profit_loss))),
              avg_profit_loss_pct |-> AvgProfitLossPct(rows),
              discipline_analysis |-> analyze_discipline(rows),
              strategy_analysis |-> analyze_strategy(rows)]

\* An open trade, a successful one, a failed one and one with another label.
OutcomeInputs ==
    { [sell_price |-> None, sell_date |-> None, result |-> None],
      [sell_price |-> Some(13), sell_date |-> SellDate, result |-> Some(Success)],
      [sell_price |-> Some(8), sell_date |-> SellDate, result |-> Some(Failure)],
      [sell_price |-> Some(13), sell_date |-> SellDate, result |-> Some("breakeven")] }

\* Trade data for the analysis: bought at 10, 5 shares, in 2024 or 2025.
AnalysisInputs ==
    { [code |-> Some("2330"), buy_price |-> Some(10), shares |-> Some(5),
       buy_date |-> Some([year |-> y, day |-> 10, ok |-> TRUE]),
       discipline |-> d, entry_strategy_id |-> st] @@ o :
        y \in {2024, 2025},
        d \in {None, Some("kept")},
        st \in {None, Some("STG001")},
        o \in OutcomeInputs }

\* The year argument: none, zero, a year, the first digits of a year.
YearInputs == {None, Some(0), Some(2024), Some(2025), Some(202)}

AnalyzePerformance(year) ==
    /\ op' = "analyze_performance"
    /\ arg' = [year |-> year]
    /\ ret' = Return(analyze_performance(trades, year))
    /\ UNCHANGED <<portfolio, trades, cache, now, threads, fetcher, sent, config>>

NextAnalysis ==
    \/ Writing /\ \E T \in AnalysisInputs : AddTrade(T)
    \/ Writing /\ \E year \in YearInputs : AnalyzePerformance(year)

SpecAnalysis == InitEmpty /\ [][NextAnalysis]_vars

-----------------------------------------------------------------------------
(* C5, C6: the figures of analyze_performance *)

\* The trades the analysis selects: all of them, or those bought or sold in
\* the year asked for.
Selected ==
    { i \in DOMAIN trades :
        Truthy(arg.year) =>
            \/ LikeYear(trades[i].buy_date, arg.year[1])
            \/ LikeYear(trades[i].sell_date, arg.year[1]) }

\* The sum of f over the set S
RECURSIVE SumOver(_, _)
SumOver(f, S) ==
    IF S = {} THEN 0
    ELSE LET x == CHOOSE x \in S : TRUE IN f[x] + SumOver(f, S \ {x})

RECURSIVE RatSumOver(_, _)
RatSumOver(f, S) ==
    IF S = {} THEN RatInt(0)
    ELSE LET x == CHOOSE x \in S : TRUE IN RatAdd(f[x], RatSumOver(f, S \ {x}))

ProfitLossOf == [i \in DOMAIN trades |-> OrZero(trades[i].profit_loss)]
ProfitLossPctOf == [i \in DOMAIN trades |-> OrZeroRat(trades[i].profit_loss_pct)]

\* q = n / d
IsQuotient(q, n, d) == q.num * d = n * q.den
\* q = a / d for a quotient a
IsRatQuotient(q, a, d) == q.num * d * a.den = a.num * q.den

\* C5: total_trades is the number of selected trades, success_count and
\* failure_count the numbers of those whose result is exactly the success /
\* the failure label, success_rate = success_count/total*100,
\* total_profit_loss the sum of profit_loss with NULL as 0,
\* avg_profit_loss_pct the sum of profit_loss_pct over total; on an empty
\* selection they are all 0 and nothing is raised.
C5_Totals ==
    op = "analyze_performance" =>
        LET a == ret.value
            total == Cardinality(Selected)
            success == Cardinality({ i \in Selected : trades[i].result = Some(Success) })
            failure == Cardinality({ i \in Selected : trades[i].result = Some(Failure) })
        IN  /\ ret.raised = ""
            /\ a.total_trades = total
            /\ a.success_count = success
            /\ a.failure_count = failure
            /\ a.total_profit_loss = SumOver(ProfitLossOf, Selected)
            /\ IF total = 0
               THEN a.success_rate = RatInt(0) /\ a.avg_profit_loss_pct = RatInt(0)
               ELSE /\ IsQuotient(a.success_rate, success * 100, total)
                    /\ IsRatQuotient(a.avg_profit_loss_pct,
                                     RatSumOver(ProfitLossPctOf, Selected), total)

\* Two trades analysed, one successful and one still open.
C5_Witness ==
    /\ op = "analyze_performance"
    /\ Cardinality(Selected) = 2
    /\ ret.value.success_count = 1
    /\ ret.value.failure_count = 0
    /\ \E i \in Selected : trades[i].profit_loss = None
    /\ ret.value.total_profit_loss = 15
    /\ ret.value.avg_profit_loss_pct = RatInt(15)

\* A breakdown g over the label column partitions the selected trades.
Partitions(g, column) ==
    LET Members(label) == { i \in Selected : trades[i][column] = label }
        total_trades == ret.value.total_trades
    IN  /\ \A i \in Selected :
              Cardinality({ label \in DOMAIN g : i \in Members(label) }) = 1
        /\ SumOver([label \in DOMAIN g |-> g[label].count], DOMAIN g) = total_trades
        /\ SumOver([label \in DOMAIN g |-> g[label].total_profit_loss], DOMAIN g)
              = ret.value.total_profit_loss
        /\ \A label \in DOMAIN g :
              LET success == Cardinality({ i \in Members(label) :
                                              trades[i].result = Some(Success) })
              IN  /\ DOMAIN g[label] = {"count", "success_count", "success_rate",
                                        "avg_profit_loss_pct", "total_profit_loss"}
                  /\ g[label].count = Cardinality(Members(label))
                  /\ g[label].count > 0
                  /\ g[label].success_count = success
                  /\ IsQuotient(g[label].success_rate, success * 100, g[label].count)
                  /\ IsRatQuotient(g[label].avg_profit_loss_pct,
                                   RatSumOver(ProfitLossPctOf, Members(label)),
                                   g[label].count)
                  /\ g[label].total_profit_loss = SumOver(ProfitLossOf, Members(label))

\* C6: the discipline breakdown and the entry-strategy breakdown each
\* partition the selected trades: every trade is in exactly one group, the
\* counts sum to total_trades, the group totals sum to total_profit_loss,
\* and each group's count, success_count, success_rate, avg_profit_loss_pct
\* and total_profit_loss are those of exactly the trades with its label.
C6_Breakdowns ==
    (op = "analyze_performance" /\ Selected # {}) =>
        /\ Partitions(ret.value.discipline_analysis, "discipline")
        /\ Partitions(ret.value.strategy_analysis, "entry_strategy_id")

\* Two trades analysed that fall into two discipline groups and one
\* strategy group.
C6_Witness ==
    /\ op = "analyze_performance"
    /\ Cardinality(Selected) = 2
    /\ DOMAIN ret.value.discipline_analysis = {None, Some("kept")}
    /\ DOMAIN ret.value.strategy_analysis = {Some("STG001")}
    /\ ret.value.strategy_analysis[Some("STG001")].count = 2
    /\ ret.value.strategy_analysis[Some("STG001")].total_profit_loss = 5

-----------------------------------------------------------------------------
(* Series arithmetic of pandas, as src/app.py and src/data/fetcher.py use it *)

\* A Series is a sequence of floats, NaN being None.  The floats of the
\* moving averages, of the RSI and of the stochastic are exact fractions.

RatSub(a, b) == Rat(a.num * b.den - b.num * a.den, a.den * b.den)
RatMulInt(a, n) == Rat(a.num * n, a.den)
\* a / b, b # 0
RatDiv(a, b) == Rat(a.num * b.den, a.den * b.num)
RatLess(a, b) == a.num * b.den < b.num * a.den

\* The values of f, a function on 1..n, as a sequence
AsSeq(f) == <<>> \o f

\* The Series of a column of whole numbers
SeriesOf(column) == AsSeq([i \in DOMAIN column |-> Some(RatInt(column[i]))])

\* Series.fillna(v) and Series.replace(0, v), v a float or NaN
fillna(s, v) == AsSeq([i \in DOMAIN s |-> IF s[i] = None THEN Some(v) ELSE s[i]])
replace_zero(s, v) ==
    AsSeq([i \in DOMAIN s |-> IF s[i] # None /\ s[i][1].num = 0 THEN v ELSE s[i]])

\* a - b and a / b of two aligned Series: NaN where either is NaN
Sub(a, b) ==
    AsSeq([i \in DOMAIN a |->
        IF a[i] = None \/ b[i] = None THEN None
        ELSE Some(RatSub(a[i][1], b[i][1]))])
Div(a, b) ==
    AsSeq([i \in DOMAIN a |->
        IF a[i] = None \/ b[i] = None THEN None
        ELSE Some(RatDiv(a[i][1], b[i][1]))])

RECURSIVE RatSum(_)
RatSum(w) ==
    IF w = <<>> THEN RatInt(0)
    ELSE IF Len(w) = 1 THEN w[1][1]
    ELSE LET half == Len(w) \div 2 IN
         RatAdd(RatSum(SubSeq(w, 1, half)), RatSum(SubSeq(w, half + 1, Len(w))))

RECURSIVE RatMin(_)
RatMin(w) ==
    IF Len(w) = 1 THEN w[1][1]
    ELSE LET m == RatMin(Tail(w)) IN IF RatLess(w[1][1], m) THEN w[1][1] ELSE m

RECURSIVE RatMax(_)
RatMax(w) ==
    IF Len(w) = 1 THEN w[1][1]
    ELSE LET m == RatMax(Tail(w)) IN IF RatLess(m, w[1][1]) THEN w[1][1] ELSE m

mean(w) == RatDivInt(RatSum(w), Len(w))

\* Series.rolling(n): the window of the n values that end at each place,
\* none until n values are there and while one of them is NaN
rolling(s, n) ==
    AsSeq([i \in DOMAIN s |->
        IF i < n \/ \E j \in (i - n + 1)..i : s[j] = None
        THEN None
        ELSE Some(SubSeq(s, i - n + 1, i))])

\* .mean(), .min() and .max() of the windows: NaN where there is none
rolling_mean(windows) ==
    AsSeq([i \in DOMAIN windows |->
        IF windows[i] = None THEN None ELSE Some(mean(windows[i][1]))])
rolling_min(windows) ==
    AsSeq([i \in DOMAIN windows |->
        IF windows[i] = None THEN None ELSE Some(RatMin(windows[i][1]))])
rolling_max(windows) ==
    AsSeq([i \in DOMAIN windows |->
        IF windows[i] = None THEN None ELSE Some(RatMax(windows[i][1]))])

\* Series.diff()
diff(s) ==
    AsSeq([i \in DOMAIN s |->
        IF i = 1 \/ s[i] = None \/ s[i - 1] = None
        THEN None
        ELSE Some(RatSub(s[i][1], s[i - 1][1]))])

\* delta.where(delta > 0, 0) and -delta.where(delta < 0, 0): a NaN fails
\* the comparison and becomes 0
gains(delta) ==
    AsSeq([i \in DOMAIN delta |->
        IF delta[i] # None /\ delta[i][1].num > 0
        THEN delta[i] ELSE Some(RatInt(0))])
losses(delta) ==
    AsSeq([i \in DOMAIN delta |->
        IF delta[i] # None /\ delta[i][1].num < 0
        THEN Some(RatSub(RatInt(0), delta[i][1])) ELSE Some(RatInt(0))])

\* 100 - (100 / (1 + rs))
rsi_of(rs) ==
    AsSeq([i \in DOMAIN rs |->
        IF rs[i] = None THEN None
        ELSE Some(RatSub(RatInt(100),
                         RatDiv(RatInt(100), RatAdd(RatInt(1), rs[i][1]))))])

\* Series.ewm(com=c).mean(), adjust=True: the mean of the values so far, the
\* value j steps back weighted (c/(c+1))^j; a NaN carries no weight, and the
\* result is NaN before the first value.
ewm_com(s, c) ==
    AsSeq([i \in DOMAIN s |->
        LET V == { j \in 1..i : s[j] # None } IN
        IF V = {} THEN None
        ELSE LET first == CHOOSE j \in V : \A k \in V : j <= k
                 weight == [j \in V |-> (c ^ (i - j)) * ((c + 1) ^ (j - first))]
                 weighted == [j \in V |-> RatMulInt(s[j][1], weight[j])]
             IN  Some(RatDivInt(RatSumOver(weighted, V), SumOver(weight, V)))])

\* The floats of the exponential averages of the closes are kept to 1/Scale,
\* rounded down.
Scale == 1000
Fixed(column) == AsSeq([i \in DOMAIN column |-> column[i] * Scale])
FloatOf(x) == Some(Rat(x, Scale))

\* The running weighted sum and sum of weights of ewm(span=n), adjust=True:
\* the weight of a value decays by (n-1)/(n+1) a step.  sums holds those of
\* the first values of x.
RECURSIVE ewm_sums(_, _, _)
ewm_sums(x, n, sums) ==
    IF Len(sums) = Len(x) THEN sums
    ELSE LET i == Len(sums) + 1 IN
         ewm_sums(x, n,
            Append(sums,
                IF i = 1 THEN [sum |-> x[1], weights |-> Scale]
                ELSE [sum |-> x[i] + (sums[i - 1].sum * (n - 1)) \div (n + 1),
                      weights |-> Scale
                          + (sums[i - 1].weights * (n - 1)) \div (n + 1)]))

\* Series.ewm(span=n).mean(), adjust=True
ewm_span(x, n) ==
    LET sums == ewm_sums(x, n, <<>>) IN
    AsSeq([i \in DOMAIN x |-> (sums[i].sum * Scale) \div sums[i].weights])

\* Series.ewm(span=n, adjust=False).mean(): seeded with the first value,
\* then y = a*x + (1-a)*y with a = 2/(n+1).  y holds the first means.
RECURSIVE ewm_unadjusted(_, _, _)
ewm_unadjusted(x, n, y) ==
    IF Len(y) = Len(x) THEN y
    ELSE LET i == Len(y) + 1 IN
         ewm_unadjusted(x, n,
            Append(y, IF i = 1 THEN x[1]
                      ELSE (2 * x[i] + (n - 1) * y[i - 1]) \div (n + 1)))

ewm_span_unadjusted(x, n) == ewm_unadjusted(x, n, <<>>)

Minus(a, b) == AsSeq([i \in DOMAIN a |-> a[i] - b[i]])

-----------------------------------------------------------------------------
(* The cache and the retrieval calls, src/data/fetcher.py *)

\* A cache file is named by (symbol, period); its content is what save_cache
\* dumped and its mtime the clock at that moment.  A list of price rows is a
\* sequence, [] being <<>>.

\* The clock counts tenths of a second.
PerSecond == 10

\* StockDataCache.__init__: cache_duration, in seconds
cache_duration == 3600

\* The files of get_daily_price (days = 30) and get_historical (days = 90)
PriceKey(stock_id) == <<"price", stock_id, "30d">>
HistKey(stock_code) == <<"hist", stock_code, "90d">>

\* A plausible slip: an entry as old as cache_duration still counts
get_cached_data_inclusive(files, clock, key) ==
    IF key \in DOMAIN files /\ clock - files[key].mtime <= cache_duration * PerSecond
    THEN Some(files[key].data)
    ELSE None

\* StockDataCache.get_cached_data
get_cached_data(files, clock, key) ==
    IF key \in DOMAIN files /\ clock - files[key].mtime < cache_duration * PerSecond
    THEN Some(files[key].data)
    ELSE None

\* StockDataCache.save_cache
save_cache(files, clock, key, data) ==
    [k \in DOMAIN files \cup {key} |->
        IF k = key THEN [data |-> data, mtime |-> clock] ELSE files[k]]

\* `if cached:` -- None and an empty list are false
TruthyData(cached) == cached # None /\ cached[1] # <<>>

\* A request sent upstream: the clock, the service asked, and the attempt
\* of the call that sent it
Request(clock, service, attempt) ==
    [at |-> clock, to |-> service, attempt |-> attempt]

\* TaiwanStockScreener.get_daily_price.  upstream is what requests.get and
\* response.json() give: an exception, or a status and a data list.
get_daily_price(files, clock, stock_id, upstream) ==
    LET cached == get_cached_data(files, clock, PriceKey(stock_id)) IN
    IF TruthyData(cached)
    THEN [cache |-> files, ret |-> Return(cached), requests |-> <<>>]
    ELSE IF ~upstream.raised /\ upstream.status = 200
    THEN [cache |-> save_cache(files, clock, PriceKey(stock_id), upstream.data),
          ret |-> Return(Some(upstream.data)),
          requests |-> << Request(clock, "finmind", 1) >>]
    ELSE [cache |-> files, ret |-> Return(None),
          requests |-> << Request(clock, "finmind", 1) >>]

\* A plausible slip: the counter is compared with > instead of >=, so the
\* pause comes with the eleventh call.
rate_limit_late(clock, f) ==
    LET since == clock - f.last_request_time
        recorded == IF since < 6 THEN clock + (6 - since) ELSE clock
        count == f.request_count + 1
    IN  IF count > 10
        THEN [clock |-> recorded + 6 * PerSecond,
              fetcher |-> [request_count |-> 0, last_request_time |-> recorded]]
        ELSE [clock |-> recorded,
              fetcher |-> [request_count |-> count, last_request_time |-> recorded]]

\* StockDataFetcher._rate_limit: sleeps until 0.6 s after the last request
\* time, records the clock as the last request time, counts the request, and
\* at the tenth sleeps 6 s and starts the count again.  time.sleep(d) is d on
\* the clock.
rate_limit(clock, f) ==
    LET since == clock - f.last_request_time
        recorded == IF since < 6 THEN clock + (6 - since) ELSE clock
        count == f.request_count + 1
    IN  IF count >= 10
        THEN [clock |-> recorded + 6 * PerSecond,
              fetcher |-> [request_count |-> 0, last_request_time |-> recorded]]
        ELSE [clock |-> recorded,
              fetcher |-> [request_count |-> count, last_request_time |-> recorded]]

\* A price bar is [close, high, low]; a history is a sequence of bars, oldest
\* first.
Column(df, name) == AsSeq([i \in DOMAIN df |-> df[i][name]])
Last(s) == s[Len(s)]

\* The mutant of stochastic: a range of zero is taken as a range of one
stochastic_unguarded(df) ==
    LET close == SeriesOf(Column(df, "close"))
        low_min == rolling_min(rolling(SeriesOf(Column(df, "low")), 9))
        high_max == rolling_max(rolling(SeriesOf(Column(df, "high")), 9))
        range == replace_zero(Sub(high_max, low_min),
                              Some(RatInt(1)))
        position == Div(Sub(close, low_min), range)
        rsv == AsSeq([i \in DOMAIN position |->
                   IF position[i] = None THEN None
                   ELSE Some(RatMulInt(position[i][1], 100))])
        k == ewm_com(rsv, 2)
    IN  [rsv |-> rsv, k |-> k, d |-> ewm_com(k, 2)]

\* _calculate_indicators, the KD lines: RSV over the 9-bar range, a range of
\* zero replaced by NaN, K the smoothed RSV and D the smoothed K
stochastic(df) ==
    LET close == SeriesOf(Column(df, "close"))
        low_min == rolling_min(rolling(SeriesOf(Column(df, "low")), 9))
        high_max == rolling_max(rolling(SeriesOf(Column(df, "high")), 9))
        range == replace_zero(Sub(high_max, low_min), None)
        position == Div(Sub(close, low_min), range)
        rsv == AsSeq([i \in DOMAIN position |->
                   IF position[i] = None THEN None
                   ELSE Some(RatMulInt(position[i][1], 100))])
        k == ewm_com(rsv, 2)
    IN  [rsv |-> rsv, k |-> k, d |-> ewm_com(k, 2)]

\* _calculate_indicators, the RSI lines: a loss of zero replaced by NaN
rsi_last_bar(df) ==
    LET delta == diff(SeriesOf(Column(df, "close")))
        gain == rolling_mean(rolling(gains(delta), 14))
        loss == replace_zero(rolling_mean(rolling(losses(delta), 14)), None)
    IN  rsi_of(Div(gain, loss))

\* _calculate_indicators: the indicators of the last bar of a history that
\* is not empty, `float(x) if not pd.isna(x) else None` each
calculate_indicators(df) ==
    LET close == SeriesOf(Column(df, "close"))
        kd == stochastic(df)
        ema12 == ewm_span_unadjusted(Fixed(Column(df, "close")), 12)
        ema26 == ewm_span_unadjusted(Fixed(Column(df, "close")), 26)
        macd == Minus(ema12, ema26)
        signal == ewm_span_unadjusted(macd, 9)
    IN  [close |-> Last(df).close,
         high |-> Last(df).high,
         low |-> Last(df).low,
         ma5 |-> Last(rolling_mean(rolling(close, 5))),
         ma20 |-> Last(rolling_mean(rolling(close, 20))),
         ma60 |-> Last(rolling_mean(rolling(close, 60))),
         k |-> Last(kd.k),
         d |-> Last(kd.d),
         rsi |-> Last(rsi_last_bar(df)),
         macd |-> FloatOf(Last(macd)),
         signal |-> FloatOf(Last(signal))]

\* StockDataFetcher.get_historical.  upstream is what yfinance gives for the
\* .TW and the .TWO ticker: an exception, or the two histories; the .TWO
\* history is asked for when the .TW one is empty.
get_historical(files, clock, f, stock_code, upstream) ==
    LET cached == get_cached_data(files, clock, HistKey(stock_code))
        limited == rate_limit(clock, f)
        hist == IF upstream.tw = <<>> THEN upstream.two ELSE upstream.tw
        requests == IF upstream.raised \/ upstream.tw # <<>>
                    THEN << Request(limited.clock, "yfinance", 1) >>
                    ELSE << Request(limited.clock, "yfinance", 1),
                            Request(limited.clock, "yfinance", 1) >>
    IN  IF TruthyData(cached)
        THEN [cache |-> files, ret |-> Return(cached), clock |-> clock,
              fetcher |-> f, requests |-> <<>>]
        ELSE IF ~upstream.raised /\ hist # <<>>
        THEN [cache |-> save_cache(files, limited.clock, HistKey(stock_code),
                                   calculate_indicators(hist)),
              ret |-> Return(Some(calculate_indicators(hist))),
              clock |-> limited.clock, fetcher |-> limited.fetcher,
              requests |-> requests]
        ELSE [cache |-> files, ret |-> Return(None), clock |-> limited.clock,
              fetcher |-> limited.fetcher, requests |-> requests]

\* The file of get_price
InfoKey(symbol) == <<symbol, "1mo">>

\* _fetch_with_retry(symbol, max_retries=3)
max_retries == 3

\* What yfinance does in one attempt: the .TW info holds a price ("tw"); it
\* holds none and the .TWO info does ("two"); neither does ("none"); the
\* .TW request fails with 429 Too Many Requests ("429") or with another
\* error ("error").  The .TWO info is asked for when the .TW one holds no
\* price.
RequestsOf(outcome, clock, attempt) ==
    IF outcome \in {"two", "none"}
    THEN << Request(clock, "yfinance", attempt), Request(clock, "yfinance", attempt) >>
    ELSE << Request(clock, "yfinance", attempt) >>

\* A plausible slip: the wait after a rate-limit error is 10 s at every
\* attempt.
backoff_flat(attempt) == 10 * PerSecond

\* wait_time = (attempt + 1) * 10, attempt counting from 0
backoff(attempt) == (attempt + 1) * 10 * PerSecond

\* StockDataFetcher._fetch_with_retry, from the attempt `attempt` of
\* range(max_retries) on.  upstream[k] is what yfinance does in attempt k.
\* An attempt that finds no price, or fails with an error that is not a
\* rate-limit error, falls through to the next turn of the loop.
RECURSIVE fetch_with_retry(_, _, _, _, _, _)
fetch_with_retry(files, clock, f, symbol, upstream, attempt) ==
    IF attempt >= max_retries
    THEN [cache |-> files, clock |-> clock, fetcher |-> f, requests |-> <<>>,
          ret |-> Return(None)]
    ELSE LET limited == rate_limit(clock, f)
             cached == get_cached_data(files, limited.clock, InfoKey(symbol))
             outcome == upstream[attempt + 1]
             requests == RequestsOf(outcome, limited.clock, attempt + 1)
             data == [code |-> symbol, timestamp |-> limited.clock]
         IN  IF TruthyData(cached)
             THEN [cache |-> files, clock |-> limited.clock,
                   fetcher |-> limited.fetcher, requests |-> <<>>,
                   ret |-> Return(cached)]
             ELSE IF outcome \in {"tw", "two"}
             THEN [cache |-> save_cache(files, limited.clock, InfoKey(symbol), data),
                   clock |-> limited.clock, fetcher |-> limited.fetcher,
                   requests |-> requests, ret |-> Return(Some(data))]
             ELSE LET later == IF outcome = "429"
                               THEN limited.clock + backoff(attempt)
                               ELSE limited.clock
                      rest == fetch_with_retry(files, later, limited.fetcher,
                                               symbol, upstream, attempt + 1)
                  IN  [rest EXCEPT !.requests = requests \o rest.requests]

\* StockDataFetcher.get_price
get_price(files, clock, f, stock_code, upstream) ==
    fetch_with_retry(files, clock, f, stock_code, upstream, 0)

\* clock steps, the seconds of one step, and the requests sent upstream
MaxTicks == 3
TickSeconds == 1800
MaxSent == 3

\* What the price API answers: rows, no rows, a refusal, or no answer.
PriceUpstream ==
    { [raised |-> FALSE, status |-> 200, data |-> <<"p1">>],
      [raised |-> FALSE, status |-> 200, data |-> <<"p2">>],
      [raised |-> FALSE, status |-> 200, data |-> <<>>],
      [raised |-> FALSE, status |-> 402, data |-> <<>>],
      [raised |-> TRUE, status |-> 0, data |-> <<>>] }

\* What yfinance answers: a history under one of the tickers, or none.
HistUpstream ==
    { [raised |-> FALSE, tw |-> << [close |-> 2, high |-> 3, low |-> 1] >>,
       two |-> <<>>],
      [raised |-> FALSE, tw |-> <<>>,
       two |-> << [close |-> 3, high |-> 3, low |-> 2] >>],
      [raised |-> FALSE, tw |-> <<>>, two |-> <<>>],
      [raised |-> TRUE, tw |-> <<>>, two |-> <<>>] }

Tick ==
    /\ now < MaxTicks * TickSeconds * PerSecond
    /\ now' = now + TickSeconds * PerSecond
    /\ op' = "tick"
    /\ arg' = <<>>
    /\ ret' = <<>>
    /\ UNCHANGED <<portfolio, trades, cache, threads, fetcher, sent, config>>

GetDailyPrice(stock_id, upstream) ==
    LET r == get_daily_price(cache, now, stock_id, upstream) IN
    /\ op' = "get_daily_price"
    /\ arg' = [code |-> stock_id, upstream |-> upstream]
    /\ cache' = r.cache
    /\ ret' = r.ret
    /\ sent' = sent \o r.requests
    /\ UNCHANGED <<portfolio, trades, now, threads, fetcher, config>>

GetHistorical(stock_code, upstream) ==
    LET r == get_historical(cache, now, fetcher, stock_code, upstream) IN
    /\ op' = "get_historical"
    /\ arg' = [code |-> stock_code, upstream |-> upstream]
    /\ cache' = r.cache
    /\ now' = r.clock
    /\ fetcher' = r.fetcher
    /\ sent' = sent \o r.requests
    /\ ret' = r.ret
    /\ UNCHANGED <<portfolio, trades, threads, config>>

GetPrice(stock_code, upstream) ==
    LET r == get_price(cache, now, fetcher, stock_code, upstream) IN
    /\ op' = "get_price"
    /\ arg' = [code |-> stock_code, upstream |-> upstream]
    /\ cache' = r.cache
    /\ now' = r.clock
    /\ fetcher' = r.fetcher
    /\ sent' = sent \o r.requests
    /\ ret' = r.ret
    /\ UNCHANGED <<portfolio, trades, threads, config>>

NextFetch ==
    \/ Tick
    \/ Len(sent) < MaxSent
            /\ \E c \in Codes, u \in PriceUpstream : GetDailyPrice(c, u)
    \/ Len(sent) < MaxSent
            /\ \E u \in HistUpstream : GetHistorical("2330", u)

SpecFetch == InitEmpty /\ [][NextFetch]_vars

-----------------------------------------------------------------------------
(* C10: a failed fetch *)

\* The file the call of the next state reads and writes.
CalledKey ==
    IF op' = "get_daily_price" THEN PriceKey(arg'.code) ELSE HistKey(arg'.code)

\* The call of the next state went upstream and the fetch failed: an error,
\* a refusal, or an empty payload.
FetchFailed ==
    /\ op' \in {"get_daily_price", "get_historical"}
    /\ ~TruthyData(get_cached_data(cache, now, CalledKey))
    /\ IF op' = "get_daily_price"
       THEN arg'.upstream.raised \/ arg'.upstream.status # 200
                \/ arg'.upstream.data = <<>>
       ELSE arg'.upstream.raised
                \/ (arg'.upstream.tw = <<>> /\ arg'.upstream.two = <<>>)

\* C10: when the live fetch fails, the call returns the cached data of its
\* key if a cache file exists, even a stale one, returns the no-data result
\* only when none exists, and raises nothing.  An empty list, cached or
\* returned, is taken as no data as well.
C10_DegradeToCache ==
    [][FetchFailed =>
        /\ ret'.raised = ""
        /\ IF CalledKey \in DOMAIN cache /\ cache[CalledKey].data # <<>>
           THEN ret'.value = Some(cache[CalledKey].data)
           ELSE ret'.value \in {None, Some(<<>>)}]_vars

-----------------------------------------------------------------------------
(* C14: the stored trades under add_trade and the queries *)

NextHistory ==
    \/ Writing /\ \E T \in AnalysisInputs : AddTrade(T)
    \/ Writing /\ \E f \in {<<>>, [code |-> Some("2330")], [year |-> Some(2024)]} :
                      GetTrades(f)
    \/ Writing /\ \E year \in YearInputs : AnalyzePerformance(year)

SpecHistory == InitEmpty /\ [][NextHistory]_vars

\* C14: add_trade inserts one record and leaves every stored trade as it
\* was; get_trades and analyze_performance leave the table as it was.
C14_HistoryKept ==
    [][/\ op' = "add_trade" =>
             /\ Len(trades') = Len(trades) + 1
             /\ \A i \in DOMAIN trades : trades'[i] = trades[i]
       /\ op' \in {"get_trades", "analyze_performance"} => trades' = trades]_vars

\* A second trade has been added after a first one that differs from it.
C14_Witness ==
    /\ op = "add_trade"
    /\ Len(trades) = 2
    /\ trades[1].id = 1
    /\ trades[2].id = 2
    /\ trades[1].result # trades[2].result
    /\ trades[1].buy_date # trades[2].buy_date

-----------------------------------------------------------------------------
(* C15: holding_days *)

\* Date texts: '2024-01-10', '2025-01-05', and one strptime rejects
\* ('2025-13-45'; the empty text is rejected as well).
Date20240110 == Some([year |-> 2024, day |-> 10, ok |-> TRUE])
Date20250105 == Some([year |-> 2025, day |-> 5, ok |-> TRUE])
Malformed == Some([year |-> 2025, day |-> 0, ok |-> FALSE])

\* Trade data with the dates missing, null, malformed or well formed, without
\* or with a holding_days of its own.
HoldingInputs ==
    { [code |-> Some(c), buy_price |-> Some(1050), shares |-> Some(1000),
       sell_price |-> sp]
        @@ Opt("buy_date", b) @@ Opt("sell_date", s) @@ Opt("holding_days", h) :
        c \in Codes,
        sp \in {None, Some(1180)},
        b \in Optional({None, Malformed, BuyDate, Date20240110}),
        s \in Optional({None, Malformed, SellDate, Date20250105}),
        h \in Optional({Some(5)}) }

NextHolding == op = "init" /\ \E T \in HoldingInputs : AddTrade(T)
SpecHolding == InitEmpty /\ [][NextHolding]_vars

\* Both dates of T are present and parse.
WellFormedDates(T) ==
    /\ Get(T, "buy_date", None) \notin {None, Malformed}
    /\ Get(T, "sell_date", None) \notin {None, Malformed}

\* The days from the buy date to the sell date of T.
ExpectedDays(T) ==
    CASE T.buy_date = BuyDate /\ T.sell_date = SellDate -> 64
      [] T.buy_date = BuyDate /\ T.sell_date = Date20250105 -> -5
      [] T.buy_date = Date20240110 /\ T.sell_date = SellDate -> 430
      [] T.buy_date = Date20240110 /\ T.sell_date = Date20250105 -> 361

\* T with well-formed dates in place of its own.
WithDates(T) ==
    [buy_date |-> BuyDate, sell_date |-> SellDate]
        @@ [k \in DOMAIN T \ {"buy_date", "sell_date"} |-> T[k]]

\* The stored record is, outside its dates and holding_days, the one T with
\* well-formed dates gives.
RestKept ==
    /\ AddedRow.buy_date = Get(arg, "buy_date", None)
    /\ AddedRow.sell_date = Get(arg, "sell_date", None)
    /\ \A f \in DOMAIN AddedRow \ {"buy_date", "sell_date", "holding_days"} :
          AddedRow[f] = NewRow(AddedRow.id, WithDates(arg))[f]

\* C15 as stated: holding_days is the number of days from buy_date to
\* sell_date when both parse; when a date is missing or malformed add_trade
\* does not raise, stores the trade with holding_days unset and keeps every
\* other field as for a well-formed trade.
C15_AsStated ==
    op = "add_trade" =>
        /\ ret.raised = ""
        /\ Len(trades) = 1
        /\ AddedRow.holding_days =
               IF WellFormedDates(arg) THEN Some(ExpectedDays(arg)) ELSE None
        /\ RestKept

\* C15 amended: as stated, except that with a date missing or malformed
\* holding_days holds the value the trade data itself supplied for it, and is
\* unset when the trade data supplied none.
C15_HoldingDays ==
    op = "add_trade" =>
        /\ ret.raised = ""
        /\ Len(trades) = 1
        /\ AddedRow.holding_days =
               IF WellFormedDates(arg) THEN Some(ExpectedDays(arg))
               ELSE Get(arg, "holding_days", None)
        /\ RestKept

\* A sold trade with a malformed sell date has been stored: no holding_days,
\* and the profit as computed from the prices.
C15_Witness ==
    /\ op = "add_trade"
    /\ Get(arg, "buy_date", None) = BuyDate
    /\ Get(arg, "sell_date", None) = Malformed
    /\ "holding_days" \notin DOMAIN arg
    /\ AddedRow.holding_days = None
    /\ AddedRow.sell_date = Malformed
    /\ AddedRow.profit_loss = Some(130000)

-----------------------------------------------------------------------------
(* The per-stock indicator query, src/app.py api_stock *)

\* close.rolling(n).mean().fillna(0)
moving_average(close, n) == fillna(rolling_mean(rolling(close, n)), RatInt(0))

\* api_stock, the RSI lines: a loss of zero replaced by 0.0001, the result
\* filled with 50
relative_strength(close) ==
    LET delta == diff(close)
        gain == rolling_mean(rolling(gains(delta), 14))
        loss == replace_zero(rolling_mean(rolling(losses(delta), 14)),
                             Some(Rat(1, 10000)))
    IN  fillna(rsi_of(Div(gain, loss)), RatInt(50))

\* api_stock: the rows of get_daily_price, and when there are any the
\* aligned arrays of the answer, else the error.  The k and d arrays are
\* built from df['macd'] and df['signal'].
api_stock(files, clock, code, upstream) ==
    LET r == get_daily_price(files, clock, code, upstream)
        price_data == r.ret.value
    IN  IF TruthyData(price_data)
        THEN LET df == price_data[1]
                 close == fillna(SeriesOf(Column(df, "close")), RatInt(0))
                 ema12 == ewm_span(Fixed(Column(df, "close")), 12)
                 ema26 == ewm_span(Fixed(Column(df, "close")), 26)
                 macd == Minus(ema12, ema26)
                 signal == ewm_span(macd, 9)
             IN  [cache |-> r.cache,
                  requests |-> r.requests,
                  ret |-> Return([code |-> code,
                                  prices |-> Column(df, "close"),
                                  ma5 |-> moving_average(close, 5),
                                  ma20 |-> moving_average(close, 20),
                                  ma60 |-> moving_average(close, 60),
                                  rsi |-> relative_strength(close),
                                  macd |-> [i \in DOMAIN df |-> FloatOf(macd[i])],
                                  signal |-> [i \in DOMAIN df |-> FloatOf(signal[i])],
                                  k |-> [i \in DOMAIN df |-> FloatOf(macd[i])],
                                  d |-> [i \in DOMAIN df |-> FloatOf(signal[i])]])]
        ELSE [cache |-> r.cache, requests |-> r.requests,
              ret |-> Return([error |-> "no data"])]

\* the bars that follow the flat stretch of a history
MaxTail == 3

\* The histories: a stretch of equal bars, none or long enough to fill the
\* window of the stochastic or of the RSI with the next bar, followed by
\* bars that rise, fall, range, or close above their high; and the stretches
\* that fill the 20 and 60 bar averages, followed by at most one bar.
FlatBar == [close |-> 2, high |-> 2, low |-> 2]
TailBars ==
    { FlatBar,
      [close |-> 3, high |-> 3, low |-> 2],
      [close |-> 1, high |-> 2, low |-> 1],
      [close |-> 2, high |-> 4, low |-> 0],
      [close |-> 5, high |-> 3, low |-> 1] }
Flat(n) == [i \in 1..n |-> FlatBar]
Tails(longest) == UNION { [1..m -> TailBars] : m \in 0..longest }
Histories ==
    { Flat(n) \o tail : n \in {0, 8, 13}, tail \in Tails(MaxTail) }
        \cup { Flat(n) \o tail : n \in {19, 59}, tail \in Tails(1) }

\* What the price API and yfinance answer: a history, or nothing
StockUpstream ==
    { [raised |-> FALSE, status |-> 200, data |-> h] : h \in Histories }
        \cup { [raised |-> TRUE, status |-> 0, data |-> <<>>] }
HistoryUpstream ==
    { [raised |-> FALSE, tw |-> h, two |-> <<>>] : h \in Histories }
        \cup { [raised |-> TRUE, tw |-> <<>>, two |-> <<>>] }

ApiStock(code, upstream) ==
    LET r == api_stock(cache, now, code, upstream) IN
    /\ op' = "api_stock"
    /\ arg' = [code |-> code, upstream |-> upstream]
    /\ cache' = r.cache
    /\ ret' = r.ret
    /\ sent' = sent \o r.requests
    /\ UNCHANGED <<portfolio, trades, now, threads, fetcher, config>>

\* One query on the empty cache
NextIndicators ==
    /\ op = "init"
    /\ \/ \E u \in StockUpstream : ApiStock("2330", u)
       \/ \E u \in HistoryUpstream : GetHistorical("2330", u)

SpecIndicators == InitEmpty /\ [][NextIndicators]_vars

\* The bars the query of this state was made on
Bars == IF op = "api_stock" THEN arg.upstream.data ELSE arg.upstream.tw

-----------------------------------------------------------------------------
(* C17: the moving averages *)

\* The arithmetic mean of the n closes that end at bar i
MeanOfCloses(bars, i, n) ==
    Rat(SumOver([j \in (i - n + 1)..i |-> bars[j].close], (i - n + 1)..i), n)

\* Bar i is the bar of index i-1: null before index n-1, the mean from there
Expected(bars, i, n) ==
    IF i - 1 < n - 1 THEN None ELSE Some(MeanOfCloses(bars, i, n))

Answered == op = "api_stock" /\ "prices" \in DOMAIN ret.value
Computed == op = "get_historical" /\ ret.value # None

\* C17: for n = 5, 20 and 60 the moving-average output is null at the
\* indices below n-1 and the mean of the last n closes from there on: each
\* element of the arrays of the stock query, and the value of the last bar
\* in the indicators of a history.
C17_MovingAverage ==
    /\ Answered =>
          \A i \in DOMAIN Bars :
              /\ ret.value.ma5[i] = Expected(Bars, i, 5)
              /\ ret.value.ma20[i] = Expected(Bars, i, 20)
              /\ ret.value.ma60[i] = Expected(Bars, i, 60)
    /\ Computed =>
          /\ ret.value[1].ma5 = Expected(Bars, Len(Bars), 5)
          /\ ret.value[1].ma20 = Expected(Bars, Len(Bars), 20)
          /\ ret.value[1].ma60 = Expected(Bars, Len(Bars), 60)

\* What holds of the code: the last-bar values are as C17 says, and the
\* arrays of the stock query hold 0 where C17 says null.
C17_ZeroForNull ==
    /\ Answered =>
          \A i \in DOMAIN Bars :
              /\ ret.value.ma5[i] = fillna(<<Expected(Bars, i, 5)>>, RatInt(0))[1]
              /\ ret.value.ma20[i] = fillna(<<Expected(Bars, i, 20)>>, RatInt(0))[1]
              /\ ret.value.ma60[i] = fillna(<<Expected(Bars, i, 60)>>, RatInt(0))[1]
    /\ Computed =>
          /\ ret.value[1].ma5 = Expected(Bars, Len(Bars), 5)
          /\ ret.value[1].ma20 = Expected(Bars, Len(Bars), 20)
          /\ ret.value[1].ma60 = Expected(Bars, Len(Bars), 60)

-----------------------------------------------------------------------------
(* C18: the RSI *)

InRange(x) == x # None /\ RatGe(x[1], 0) /\ RatLe(x[1], 100)

\* The 14-value window of gains and losses is filled from bar 14 on.
Rsi(x, i) == IF i < 14 THEN x = Some(RatInt(50)) ELSE InRange(x)

\* The closes of bars i-13..i never fall
NoLoss(bars, i) ==
    \A j \in (i - 13)..i : j > 1 => bars[j].close >= bars[j - 1].close

\* C18: the RSI output is in [0, 100] where the 14-period window is filled,
\* a window without a loss included, and is 50 where it is not filled: each
\* element of the array of the stock query, and the value of the last bar
\* in the indicators of a history.
C18_Rsi ==
    /\ Answered => \A i \in DOMAIN Bars : Rsi(ret.value.rsi[i], i)
    /\ Computed => Rsi(ret.value[1].rsi, Len(Bars))

\* What holds of the code: the array of the stock query is as C18 says, and
\* the value of the last bar is null where the window is not filled or holds
\* no loss, and in [0, 100] otherwise.
C18_NullForNeutral ==
    /\ Answered => \A i \in DOMAIN Bars : Rsi(ret.value.rsi[i], i)
    /\ Computed =>
          IF Len(Bars) < 14 \/ NoLoss(Bars, Len(Bars))
          THEN ret.value[1].rsi = None
          ELSE InRange(ret.value[1].rsi)

\* The stock query answered a window without a loss and one with a loss.
C18_Filled ==
    /\ Answered
    /\ Len(Bars) = 16
    /\ NoLoss(Bars, 14)
    /\ ~NoLoss(Bars, 16)
    /\ ret.value.rsi[14] # ret.value.rsi[16]

-----------------------------------------------------------------------------
(* C19: the KD stochastic *)

NullOrInRange(x) == x = None \/ InRange(x)

\* Every bar closes between its low and its high.
WellFormedBars(bars) ==
    \A i \in DOMAIN bars : bars[i].low <= bars[i].close /\ bars[i].close <= bars[i].high

\* The highest high of the 9 bars that end at bar i equals their lowest low.
RangeZero(bars, i) ==
    /\ i >= 9
    /\ \E v \in { bars[j].high : j \in (i - 8)..i } :
        /\ \A j \in (i - 8)..i : bars[j].high <= v /\ v <= bars[j].low
        /\ \E j \in (i - 8)..i : bars[j].low = v

\* A history was fetched and is not empty.
Fetched == op = "get_historical" /\ ~arg.upstream.raised /\ Bars # <<>>

\* K and D of the last bar, as returned, and of every bar, are null or in
\* [0, 100]; the RSV is null where the range is zero; nothing is raised.
KDWithinBounds ==
    /\ ret.raised = ""
    /\ ret.value # None
    /\ NullOrInRange(ret.value[1].k)
    /\ NullOrInRange(ret.value[1].d)
    /\ \A i \in DOMAIN Bars :
        /\ NullOrInRange(stochastic(Bars).k[i])
        /\ NullOrInRange(stochastic(Bars).d[i])
        /\ RangeZero(Bars, i) => stochastic(Bars).rsv[i] = None

\* C19 as stated: for every high/low/close series K and D are each null or
\* within [0, 100], and where the 9-period high-low range is zero the RSV is
\* null and nothing is raised.
C19_AsStated == Fetched => KDWithinBounds

\* C19: for every series whose bars close between their low and their high,
\* K and D are each null or within [0, 100], and where the 9-period high-low
\* range is zero the RSV is null and nothing is raised.
C19_KDWithinBounds == (Fetched /\ WellFormedBars(Bars)) => KDWithinBounds

\* A history whose 9-bar range is zero at one bar and not at a later one,
\* with K strictly inside the bounds and D smoothed away from K.
C19_Witness ==
    /\ Fetched
    /\ WellFormedBars(Bars)
    /\ \E i \in DOMAIN Bars : RangeZero(Bars, i) /\ ~RangeZero(Bars, Len(Bars))
    /\ ret.value[1].k # None
    /\ ~RatLe(ret.value[1].k[1], 0)
    /\ ~RatGe(ret.value[1].k[1], 100)
    /\ ret.value[1].d # None
    /\ ret.value[1].d # ret.value[1].k

-----------------------------------------------------------------------------
(* C20: the k and d arrays of the stock query *)

\* C20: the k and d arrays of the stock query are the KD stochastic of the
\* bars, K the smoothed RSV and D the smoothed K, one value for each date,
\* and are not copies of the macd and signal arrays.
C20_TrueKD ==
    Answered =>
        /\ ret.value.k = stochastic(Bars).k
        /\ ret.value.d = stochastic(Bars).d
        /\ Len(ret.value.k) = Len(Bars)
        /\ Len(ret.value.d) = Len(Bars)
        /\ ~(ret.value.k = ret.value.macd /\ ret.value.d = ret.value.signal)

\* What holds of the code: k is the macd array and d the signal array.
C20_Alias ==
    Answered =>
        /\ ret.value.k = ret.value.macd
        /\ ret.value.d = ret.value.signal

-----------------------------------------------------------------------------
(* C21: how long a cache entry is served *)

\* The (symbol, period) keys of the cache
CacheKeys == {PriceKey("2330"), PriceKey("2454"), HistKey("2330")}

\* save_cache(symbol, data, period); the data names its key and the clock
\* of the save
SaveCache(key) ==
    /\ op' = "save_cache"
    /\ arg' = [key |-> key, data |-> [key |-> key, saved |-> now]]
    /\ cache' = save_cache(cache, now, key, [key |-> key, saved |-> now])
    /\ ret' = Return(None)
    /\ UNCHANGED <<portfolio, trades, now, threads, fetcher, sent, config>>

\* get_cached_data(symbol, period)
GetCachedData(key) ==
    /\ op' = "get_cached_data"
    /\ arg' = [key |-> key]
    /\ ret' = Return(get_cached_data(cache, now, key))
    /\ UNCHANGED <<portfolio, trades, cache, now, threads, fetcher, sent, config>>

NextCache ==
    \/ Tick
    \/ \E key \in CacheKeys : SaveCache(key)
    \/ \E key \in CacheKeys : GetCachedData(key)

SpecCache == InitEmpty /\ [][NextCache]_vars

\* The clock of the last save under a key, none when nothing was saved
LastSave(key) == IF key \in DOMAIN cache THEN Some(cache[key].mtime) ELSE None

\* C21: get_cached_data returns the entry of its key while less than
\* cache_duration (3600 s) has passed since the last save under that key,
\* and nothing once that long has passed or when nothing was saved; what it
\* returns was saved under that key.
C21_ValidWhileYoung ==
    op = "get_cached_data" =>
        /\ ret.raised = ""
        /\ IF LastSave(arg.key) # None /\ now - LastSave(arg.key)[1] < 3600 * PerSecond
           THEN /\ ret.value # None
                /\ ret.value[1].key = arg.key
                /\ ret.value[1].saved = LastSave(arg.key)[1]
           ELSE ret.value = None

\* An entry is read at the age of 1800 s while another key holds a newer
\* one, and an entry is refused at the age of 3600 s.
C21_Witness ==
    /\ op = "get_cached_data"
    /\ ret.value # None
    /\ now - ret.value[1].saved = 1800 * PerSecond
    /\ \E k \in DOMAIN cache : k # arg.key /\ cache[k].mtime > ret.value[1].saved

C21_WitnessStale ==
    /\ op = "get_cached_data"
    /\ LastSave(arg.key) # None
    /\ now - LastSave(arg.key)[1] = 3600 * PerSecond
    /\ ret.value = None

-----------------------------------------------------------------------------
(* C22: the retrieval calls and the cache *)

\* What yfinance does in the three attempts of a get_price call
InfoUpstream ==
    { <<"tw", "tw", "tw">>,
      <<"none", "none", "none">>,
      <<"429", "error", "two">> }

\* The tenths of a second spent in calls since the last clock step, and the
\* most that may have been spent when a get_price call starts
Busy == (now - Epoch) % (TickSeconds * PerSecond)
MaxBusy == 12

NextRetrieval ==
    \/ Tick
    \/ Len(sent) < MaxSent
            /\ \E c \in Codes, u \in PriceUpstream : GetDailyPrice(c, u)
    \/ Len(sent) < MaxSent
            /\ \E u \in HistUpstream : GetHistorical("2330", u)
    \/ Len(sent) < MaxSent /\ Busy < MaxBusy
            /\ \E u \in InfoUpstream : GetPrice("2330", u)

SpecRetrieval == InitEmpty /\ [][NextRetrieval]_vars

\* The step is a retrieval call.
Retrieval == op' \in {"get_daily_price", "get_historical", "get_price"}

\* The file the call of the next state reads and writes, and the clock at
\* which it reads it: get_price reads it after _rate_limit.
RetrievalKey ==
    IF op' = "get_daily_price" THEN PriceKey(arg'.code)
    ELSE IF op' = "get_historical" THEN HistKey(arg'.code)
    ELSE InfoKey(arg'.code)
ReadAt == IF op' = "get_price" THEN rate_limit(now, fetcher).clock ELSE now

\* The entry of the key is there and less than cache_duration old.
Fresh ==
    /\ RetrievalKey \in DOMAIN cache
    /\ ReadAt - cache[RetrievalKey].mtime < 3600 * PerSecond

\* The live fetch of the call succeeds: the price API answers with status
\* 200, yfinance gives a history, or an attempt finds a price.
FetchSucceeds ==
    IF op' = "get_daily_price"
    THEN ~arg'.upstream.raised /\ arg'.upstream.status = 200
    ELSE IF op' = "get_historical"
    THEN ~arg'.upstream.raised
            /\ (arg'.upstream.tw # <<>> \/ arg'.upstream.two # <<>>)
    ELSE \E k \in 1..3 : arg'.upstream[k] \in {"tw", "two"}

\* C22: a retrieval call whose entry is stale or missing sends a request
\* upstream; when the fetch succeeds the entry of the key becomes what the
\* call returns, saved at the clock of the save, and when it fails the cache
\* is left as it was; a call whose entry is less than cache_duration old is
\* answered with the entry and sends nothing upstream.
C22_FetchThenServe ==
    [][Retrieval =>
        IF Fresh
        THEN /\ sent' = sent
             /\ cache' = cache
             /\ ret'.value = Some(cache[RetrievalKey].data)
        ELSE /\ sent' # sent
             /\ IF FetchSucceeds
                THEN /\ RetrievalKey \in DOMAIN cache'
                     /\ ret'.value = Some(cache'[RetrievalKey].data)
                     /\ cache'[RetrievalKey].mtime >= ReadAt
                     /\ cache'[RetrievalKey].mtime <= now'
                     /\ \A k \in DOMAIN cache \ {RetrievalKey} :
                            k \in DOMAIN cache' /\ cache'[k] = cache[k]
                ELSE /\ cache' = cache
                     /\ ret'.value = None]_vars

\* The entry is a list of rows and it is empty.
EmptyEntry == RetrievalKey \in DOMAIN cache /\ cache[RetrievalKey].data = <<>>

\* What holds of the code: C22 with an empty list of rows, saved less than
\* cache_duration ago, taken as no entry.
C22_EmptyIsMissing ==
    [][Retrieval =>
        IF Fresh /\ ~EmptyEntry
        THEN /\ sent' = sent
             /\ cache' = cache
             /\ ret'.value = Some(cache[RetrievalKey].data)
        ELSE /\ sent' # sent
             /\ IF FetchSucceeds
                THEN /\ RetrievalKey \in DOMAIN cache'
                     /\ ret'.value = Some(cache'[RetrievalKey].data)
                     /\ cache'[RetrievalKey].mtime >= ReadAt
                     /\ cache'[RetrievalKey].mtime <= now'
                     /\ \A k \in DOMAIN cache \ {RetrievalKey} :
                            k \in DOMAIN cache' /\ cache'[k] = cache[k]
                ELSE /\ cache' = cache
                     /\ ret'.value = None]_vars

\* ------------------------------------------------------------------------
\* _fetch_with_retry: the attempts of one call

\* What yfinance may do in each of the three attempts of a call
Outcomes == {"tw", "two", "none", "429", "error"}
RetryUpstream == [1..max_retries -> Outcomes]

NextRetry ==
    \/ Tick
    \/ Len(sent) < MaxSent /\ Busy < MaxBusy
            /\ \E u \in RetryUpstream : GetPrice("2330", u)

SpecRetry == InitEmpty /\ [][NextRetry]_vars

\* The requests the call of the step sends, in order
NewRequests == SubSeq(sent', Len(sent) + 1, Len(sent'))

\* The attempts of the call that reach yfinance
Attempts == {NewRequests[i].attempt : i \in DOMAIN NewRequests}

\* C23: a call of _fetch_with_retry makes at most 3 attempts and ends with
\* the data of the symbol or with the no-data result; when attempt k (1, 2,
\* 3) fails with a rate-limit error, every later attempt of the call, and the
\* return of the call, come k * 10 seconds or more after the request of
\* attempt k.
C23_BoundedRetry ==
    [][op' = "get_price" =>
        /\ Attempts \subseteq 1..3
        /\ Len(NewRequests) <= 2 * 3
        /\ ret'.raised = ""
        /\ \/ ret'.value = None
           \/ ret'.value # None /\ ret'.value[1].code = arg'.code
        /\ \A i \in DOMAIN NewRequests :
              LET k == NewRequests[i].attempt IN
              arg'.upstream[k] = "429" =>
                /\ now' >= NewRequests[i].at + k * 10 * PerSecond
                /\ \A j \in DOMAIN NewRequests :
                      NewRequests[j].attempt > k =>
                        NewRequests[j].at >= NewRequests[i].at + k * 10 * PerSecond]_vars

\* Three attempts were rate-limited: the second came 10 s or more after the
\* first, the third 20 s or more after the second, and the call gave the
\* no-data result 30 s or more after the third.
C23_Witness ==
    /\ op = "get_price"
    /\ arg.upstream = <<"429", "429", "429">>
    /\ ret = Return(None)
    /\ Len(sent) = 3
    /\ sent[1].attempt = 1 /\ sent[2].attempt = 2 /\ sent[3].attempt = 3
    /\ sent[2].at >= sent[1].at + 10 * PerSecond
    /\ sent[3].at >= sent[2].at + 20 * PerSecond
    /\ now >= sent[3].at + 30 * PerSecond

\* C24: after an attempt that fails with an error other than a rate-limit
\* error, the call makes no further attempt.
C24_NoRetryAfterError ==
    [][op' = "get_price" =>
        \A i, j \in DOMAIN NewRequests :
            arg'.upstream[NewRequests[i].attempt] = "error" =>
                NewRequests[j].attempt <= NewRequests[i].attempt]_vars

\* What holds of the code: an attempt before the third that fails with an
\* error other than a rate-limit error is followed by the next attempt, as
\* soon as _rate_limit lets it go.
C24_RetriedAfterError ==
    [][op' = "get_price" =>
        \A i \in DOMAIN NewRequests :
            LET k == NewRequests[i].attempt IN
            k < 3 /\ arg'.upstream[k] = "error" =>
                \E j \in DOMAIN NewRequests :
                    /\ NewRequests[j].attempt = k + 1
                    /\ NewRequests[j].at <= NewRequests[i].at + 6 + 6 * PerSecond]_vars

\* ------------------------------------------------------------------------
\* _rate_limit over a run of calls

\* The tenths of a second that may have been spent in calls when a call of
\* the run starts: ten calls 0.6 s apart and the pause of the tenth
MaxPace == 120

\* What yfinance answers in the run: a price, or none at any attempt
PaceUpstream == { <<"tw", "tw", "tw">>, <<"none", "none", "none">> }

NextThrottle ==
    \/ Tick
    \/ Len(sent) < MaxSent /\ Busy < MaxPace
            /\ \E u \in PaceUpstream : GetPrice("2330", u)
    \/ Len(sent) < MaxSent /\ Busy < MaxPace
            /\ \E u \in HistUpstream : GetHistorical("2330", u)

SpecThrottle == InitEmpty /\ [][NextThrottle]_vars

\* The requests sent to yfinance through the fetcher, in order
Issued == SelectSeq(sent, LAMBDA r : r.to = "yfinance")

\* Every return of _rate_limit comes 0.6 s or more after the request time
\* the call before it recorded: whenever the next call is made, the time it
\* records is 0.6 s or more past the one recorded now.
ReturnsApart ==
    LET next == rate_limit(now, fetcher) IN
    /\ next.fetcher.last_request_time >= fetcher.last_request_time + 6
    /\ next.clock >= next.fetcher.last_request_time

\* C25: any two consecutive requests sent to yfinance through the fetcher
\* are 0.6 s or more apart, every return of _rate_limit coming 0.6 s or more
\* after the request time recorded by the call before it.
C25_RequestsApart ==
    /\ \A i \in 1..(Len(Issued) - 1) : Issued[i + 1].at >= Issued[i].at + 6
    /\ ReturnsApart

\* What holds of the code: the returns of _rate_limit are 0.6 s apart, and
\* the requests of one attempt, for the .TW and then the .TWO ticker, are
\* sent in the same slot.
C25_ReturnsApart ==
    /\ ReturnsApart
    /\ op = "get_price" /\ ret = Return(None) /\ Len(sent) = 6 =>
            /\ sent[2].at = sent[1].at
            /\ sent[3].at >= sent[2].at + 6
            /\ sent[4].at = sent[3].at

\* The tenth call since the last pause, when it is made now, and the call
\* after it, when it is made as soon as the tenth returns
Tenth == rate_limit(now, fetcher)
Eleventh == rate_limit(Tenth.clock, Tenth.fetcher)

C26_WitnessEleventh ==
    /\ op = "get_price"
    /\ fetcher.request_count = 1
    /\ Busy >= 9 * 6 + 6 * PerSecond
    /\ fetcher.last_request_time = now

-----------------------------------------------------------------------------
(* Trade ids, imports and restores, src/data/trade_journal.py and src/app.py *)

\* The row the UPDATE of import_trades writes: every column is trade.get(...)
\* of the imported trade, nothing is computed.
UpdatedRow(id, T) ==
    [id |-> id,
     code |-> Get(T, "code", None),
     buy_date |-> Get(T, "buy_date", None),
     buy_price |-> Get(T, "buy_price", None),
     sell_date |-> Get(T, "sell_date", None),
     sell_price |-> Get(T, "sell_price", None),
     shares |-> Get(T, "shares", None),
     total_cost |-> Get(T, "total_cost", None),
     total_revenue |-> Get(T, "total_revenue", None),
     profit_loss |-> Get(T, "profit_loss", None),
     profit_loss_pct |-> Get(T, "profit_loss_pct", None),
     holding_days |-> Get(T, "holding_days", None),
     entry_strategy_id |-> Get(T, "entry_strategy_id", None),
     result |-> Get(T, "result", None),
     discipline |-> Get(T, "discipline", None)]

\* The loop of import_trades over the trades still to import.  `committed`
\* is the table as the database file holds it, `view` the table as the
\* import's own connection sees it, and `dirty` says that this connection
\* has run a DELETE or an UPDATE it has not committed, which holds the write
\* lock of the file.  _generate_id and add_trade open connections of their
\* own: they read the committed table, and the INSERT of add_trade waits for
\* the write lock and gives up with OperationalError (database is locked).
\* An exception leaves import_trades before conn.commit(), and the
\* uncommitted statements are rolled back.
RECURSIVE import_rows(_, _, _, _, _)
import_rows(committed, view, dirty, rows, mode) ==
    IF rows = <<>>
    THEN [table |-> view, ret |-> Return(None)]
    ELSE LET trade == Head(rows)
             given == Get(trade, "id", None)
             trade_id == IF Truthy(given) THEN given[1] ELSE generate_id(committed)
             exists == trade_id \in Ids(view)
         IN  IF exists /\ mode = "merge"
             THEN import_rows(committed,
                              AsSeq([i \in DOMAIN view |->
                                        IF view[i].id = trade_id
                                        THEN UpdatedRow(trade_id, trade)
                                        ELSE view[i]]),
                              TRUE, Tail(rows), mode)
             ELSE IF dirty
             THEN [table |-> committed, ret |-> Raise("OperationalError")]
             ELSE LET r == add_trade(committed, trade) IN
                  IF r.ret.raised # ""
                  THEN [table |-> committed, ret |-> r.ret]
                  ELSE import_rows(r.table, r.table, FALSE, Tail(rows), mode)

\* TradeJournal.import_trades(trades, mode)
import_trades(table, imported, mode) ==
    IF mode = "replace"
    THEN import_rows(table, <<>>, TRUE, imported, mode)    \* DELETE FROM trades
    ELSE import_rows(table, table, FALSE, imported, mode)

\* The trades an import may hold, with and without an id
TradeA == [code |-> Some("2330")]
TradeB == [code |-> Some("2454"), result |-> Some(Success)]
ImportTrades ==
    { T @@ Opt("id", i) : T \in {TradeA, TradeB},
                          i \in Optional({ Some(n) : n \in 1 .. MaxTrades }) }
TradeLists ==
    {<<>>} \cup { <<T>> : T \in ImportTrades }
           \cup { <<T, U>> : T \in ImportTrades, U \in ImportTrades }

\* The database files a restore may be given: backups of the table taken
\* after its first trades were added.
Backups == { AsSeq([i \in 1 .. n |-> NewRow(i, TradeA)]) : n \in 0 .. MaxTrades }

\* add_trade in a thread of its own, up to the return of _generate_id
GenerateId(t, T) ==
    /\ t \notin DOMAIN threads
    /\ Len(trades) < MaxTrades
    /\ threads' = (t :> [kind |-> "add_trade", body |-> T, pc |-> "generated",
                         trade_id |-> generate_id(trades)]) @@ threads
    /\ UNCHANGED <<portfolio, trades, cache, now, op, arg, ret, fetcher, sent, config>>

\* add_trade from the INSERT to its return
InsertTrade(t) ==
    /\ t \in DOMAIN threads
    /\ LET trade_id == threads[t].trade_id IN
       /\ IF trade_id \in Ids(trades)
          THEN trades' = trades /\ ret' = Raise("IntegrityError")
          ELSE /\ trades' = Append(trades, NewRow(trade_id, threads[t].body))
               /\ ret' = Return(trade_id)
       /\ op' = "add_trade"
       /\ arg' = [trade |-> threads[t].body, trade_id |-> trade_id]
    /\ threads' = [u \in DOMAIN threads \ {t} |-> threads[u]]
    /\ UNCHANGED <<portfolio, cache, now, fetcher, sent, config>>

ImportTradesCall(imported, mode) ==
    LET r == import_trades(trades, imported, mode) IN
    /\ Len(trades) <= MaxTrades
    /\ op' = "import_trades"
    /\ arg' = [trades |-> imported, mode |-> mode]
    /\ trades' = r.table
    /\ ret' = r.ret
    /\ UNCHANGED <<portfolio, cache, now, threads, fetcher, sent, config>>

\* api_backup_restore: the database file is overwritten with the upload.
ApiBackupRestore(backup) ==
    /\ op' = "api_backup_restore"
    /\ arg' = [data |-> backup]
    /\ trades' = backup
    /\ ret' = Response(200, TRUE)
    /\ UNCHANGED <<portfolio, cache, now, threads, fetcher, sent, config>>

NextIds ==
    \/ \E t \in Threads, T \in {TradeA, TradeB} : GenerateId(t, T)
    \/ \E t \in Threads : InsertTrade(t)
    \/ \E imported \in TradeLists, mode \in {"merge", "replace"} :
            ImportTradesCall(imported, mode)
    \/ \E backup \in Backups : ApiBackupRestore(backup)

SpecIds == InitEmpty /\ [][NextIds]_vars

\* C27: the id add_trade has generated is the id of no stored trade when it
\* is inserted, also when another add_trade runs between the two; add_trade
\* never fails on a duplicate primary key; the stored ids are pairwise
\* distinct.
C27_FreshIds ==
    /\ \A t \in DOMAIN threads : threads[t].trade_id \notin Ids(trades)
    /\ op = "add_trade" => ret.raised # "IntegrityError"
    /\ \A i, j \in DOMAIN trades : trades[i].id = trades[j].id => i = j

\* What holds of the code: the stored ids are pairwise distinct, and an
\* add_trade that returns has stored its trade under the id it returns; one
\* whose id was taken between _generate_id and the INSERT fails with
\* IntegrityError.
C27_DistinctIds ==
    /\ \A i, j \in DOMAIN trades : trades[i].id = trades[j].id => i = j
    /\ op = "add_trade" =>
            IF ret.raised = ""
            THEN \E i \in DOMAIN trades :
                    trades[i] = NewRow(ret.value, arg.trade) /\ arg.trade_id = ret.value
            ELSE ret = Raise("IntegrityError") /\ arg.trade_id \in Ids(trades)

\* The imported trades whose id is stored before the import, and those that
\* come without an id
Known == { i \in DOMAIN arg'.trades :
              Truthy(Get(arg'.trades[i], "id", None))
                  /\ arg'.trades[i].id[1] \in Ids(trades) }
Unnamed == { i \in DOMAIN arg'.trades : ~Truthy(Get(arg'.trades[i], "id", None)) }

\* C28: import_trades completes; after a 'replace' import the table holds one
\* record per imported trade and none of the earlier ones; after a 'merge'
\* import every trade whose id was stored is updated in place and every other
\* imported trade is added once.
C28_ImportCompletes ==
    [][op' = "import_trades" =>
        /\ ret' = Return(None)
        /\ arg'.mode = "replace" =>
              /\ Len(trades') = Len(arg'.trades)
              /\ \A i \in DOMAIN trades' : trades'[i].code = arg'.trades[i].code
        /\ arg'.mode = "merge" /\ Known \cup Unnamed = DOMAIN arg'.trades =>
              /\ Len(trades') = Len(trades) + Len(arg'.trades) - Cardinality(Known)
              /\ \A i \in DOMAIN trades : trades'[i].id = trades[i].id
              /\ \A i \in Known : \E j \in DOMAIN trades :
                    /\ trades[j].id = arg'.trades[i].id[1]
                    /\ \E k \in Known : trades'[j] = UpdatedRow(trades[j].id, arg'.trades[k])]_vars

\* What holds of the code: a 'replace' import of one trade or more never
\* completes; the INSERT of its first add_trade finds the database locked by
\* the import's own DELETE, and the table is left as it was.
C28_ReplaceIsLocked ==
    [][op' = "import_trades" /\ arg'.mode = "replace" /\ arg'.trades # <<>> =>
        ret' = Raise("OperationalError") /\ trades' = trades]_vars

-----------------------------------------------------------------------------
(* The portfolio listing, src/app.py api_portfolio *)

\* screener.get_daily_price(code, 1): the cache key holds the days asked for
DayKey(stock_id) == <<"price", stock_id, "1d">>

daily_price(files, clock, stock_id, upstream) ==
    LET cached == get_cached_data(files, clock, DayKey(stock_id)) IN
    IF TruthyData(cached)
    THEN [cache |-> files, ret |-> Return(cached), requests |-> <<>>]
    ELSE IF ~upstream.raised /\ upstream.status = 200
    THEN [cache |-> save_cache(files, clock, DayKey(stock_id), upstream.data),
          ret |-> Return(Some(upstream.data)),
          requests |-> << Request(clock, "finmind", 1) >>]
    ELSE [cache |-> files, ret |-> Return(None),
          requests |-> << Request(clock, "finmind", 1) >>]

\* The body of the loop of api_portfolio for one position read by get_all:
\* the latest close, the profit and loss of the position as the table holds
\* it now, and the entry of the answer.  calculate_profit_loss gives None
\* for a code the table no longer holds, and pl.get raises AttributeError.
listing_entry(table, stock, price_data) ==
    LET latest == IF TruthyData(price_data) THEN price_data[1][Len(price_data[1])]
                  ELSE [close |-> 0, spread |-> 0]
        current_price == latest.close
        pl == IF current_price > 0
              THEN calculate_profit_loss(table, stock.code, current_price)
              ELSE Return([profit_loss |-> 0, profit_loss_pct |-> RatInt(0),
                           stop_loss |-> Some(0), stop_profit |-> Some(0)])
    IN  IF pl.raised # "" THEN pl
        ELSE IF pl.value = None THEN Raise("AttributeError")
        ELSE Return([code |-> stock.code,
                     name |-> stock.name,
                     cost |-> stock.cost,
                     shares |-> stock.shares,
                     current_price |-> current_price,
                     profit_loss |-> pl.value.profit_loss,
                     profit_loss_pct |-> pl.value.profit_loss_pct,
                     stop_loss |-> stock.stop_loss,
                     stop_profit |-> stock.stop_profit,
                     strategy |-> get_strategy(pl.value)])

\* What the price API answers for the last day
DayUpstream ==
    { [raised |-> FALSE, status |-> 200, data |-> << [close |-> 22, spread |-> 1] >>],
      [raised |-> FALSE, status |-> 200, data |-> <<>>],
      [raised |-> TRUE, status |-> 0, data |-> <<>>] }

\* The positions the requests add
ListingBodies ==
    { Some([code |-> c, name |-> "A", cost |-> 20, shares |-> 10]) : c \in Codes }

\* api_portfolio in a thread of its own, one listing at a time: pm.get_all()
ListGetAll(t) ==
    /\ threads = <<>>
    /\ Len(sent) < MaxSent
    /\ threads' = (t :> [kind |-> "api_portfolio", pc |-> "listing",
                         read |-> portfolio, stocks |-> <<>>]) @@ threads
    /\ UNCHANGED <<portfolio, trades, cache, now, op, arg, ret, fetcher, sent, config>>

\* One turn of the loop; an exception ends the request.
ListStock(t, upstream) ==
    /\ t \in DOMAIN threads
    /\ Len(threads[t].stocks) < Len(threads[t].read)
    /\ LET stock == threads[t].read[Len(threads[t].stocks) + 1]
           price == daily_price(cache, now, stock.code, upstream)
           entry == listing_entry(portfolio, stock, price.ret.value)
       IN  /\ cache' = price.cache
           /\ sent' = sent \o price.requests
           /\ IF entry.raised # ""
              THEN /\ threads' = [u \in DOMAIN threads \ {t} |-> threads[u]]
                   /\ op' = "api_portfolio"
                   /\ arg' = [read |-> threads[t].read, code |-> stock.code]
                   /\ ret' = entry
              ELSE /\ threads' = [threads EXCEPT ![t].stocks = Append(@, entry.value)]
                   /\ UNCHANGED <<op, arg, ret>>
    /\ UNCHANGED <<portfolio, trades, now, fetcher, config>>

\* return jsonify(stocks)
ListReturn(t) ==
    /\ t \in DOMAIN threads
    /\ Len(threads[t].stocks) = Len(threads[t].read)
    /\ threads' = [u \in DOMAIN threads \ {t} |-> threads[u]]
    /\ op' = "api_portfolio"
    /\ arg' = [read |-> threads[t].read, code |-> ""]
    /\ ret' = Return(threads[t].stocks)
    /\ UNCHANGED <<portfolio, trades, cache, now, fetcher, sent, config>>

NextListing ==
    \/ \E body \in ListingBodies : ApiPortfolioAdd(body)
    \/ \E code \in Codes : ApiPortfolioDelete(code)
    \/ ListGetAll(1)
    \/ \E u \in DayUpstream : ListStock(1, u)
    \/ ListReturn(1)

SpecListing == InitEmpty /\ [][NextListing]_vars

\* C29: the listing never fails and answers with one entry, holding one
\* strategy label, for every position it read with get_all, also when
\* another request removes a position between the read and the
\* calculate_profit_loss call for its code.
C29_ListingAnswers ==
    op = "api_portfolio" =>
        /\ ret.raised = ""
        /\ Len(ret.value) = Len(arg.read)
        /\ \A i \in DOMAIN arg.read :
              /\ ret.value[i].code = arg.read[i].code
              /\ ret.value[i].strategy \in Labels

\* What holds of the code: the listing answers as C29 says unless the
\* position it is at has been removed since get_all and a price above 0 was
\* found for it; then it fails with AttributeError.
C29_FailsWhenRemoved ==
    [][op' = "api_portfolio" /\ threads' # threads =>
        IF ret'.raised = ""
        THEN /\ Len(ret'.value) = Len(arg'.read)
             /\ \A i \in DOMAIN arg'.read :
                   /\ ret'.value[i].code = arg'.read[i].code
                   /\ ret'.value[i].strategy \in Labels
        ELSE /\ ret' = Raise("AttributeError")
             /\ arg'.code \in StoredCodes(arg'.read)
             /\ arg'.code \notin StoredCodes(portfolio)
             /\ TruthyData(get_cached_data(cache', now, DayKey(arg'.code)))]_vars

-----------------------------------------------------------------------------
(* The schedule, src/app.py api_schedule and check_schedule *)

\* A 'monitor' entry is a comma-separated string or a list of times.  The
\* string is held as its pieces between the commas, each a time with or
\* without blanks around it; '' is the string of no piece.
Str(pieces) == [shape |-> "str", pieces |-> pieces]
List(times) == [shape |-> "list", times |-> times]
Piece(time, blanks) == [time |-> time, blanks |-> blanks]

\* The schedule api_schedule answers with when the config holds none
DefaultSchedule ==
    [morning |-> "08:30",
     monitor |-> List(<<"09:30", "10:30", "11:30", "13:00", "14:00">>),
     evening |-> "15:00"]

\* api_schedule: GET answers with the schedule; POST stores the schedule of
\* the body in the config and answers with it.
api_schedule(cfg, method, data) ==
    LET schedule == Get(cfg, "schedule", DefaultSchedule) IN
    IF method = "POST"
    THEN LET posted == Get(data, "schedule", schedule) IN
         [config |-> [k \in DOMAIN cfg \cup {"schedule"} |->
                         IF k = "schedule" THEN posted ELSE cfg[k]],
          ret |-> Return(posted)]
    ELSE [config |-> cfg, ret |-> Return(schedule)]

\* monitor.split(','): a str gives its pieces, '' gives [''], and a list
\* has no split.
split(monitor) ==
    IF monitor.shape = "str"
    THEN Return(IF monitor.pieces = <<>> THEN << Piece("", FALSE) >>
                ELSE monitor.pieces)
    ELSE Raise("AttributeError")

\* t.strip()
strip(piece) == piece.time

\* check_schedule: the messages it sends at a tick, in order.  An exception
\* ends the check: what was sent before it stays sent.
check_schedule(cfg, current_time) ==
    LET schedule == Get(cfg, "schedule", <<>>)
        morning == IF current_time = Get(schedule, "morning", "08:30")
                   THEN <<"morning">> ELSE <<>>
        monitor_times == split(Get(schedule, "monitor", Str(<<>>)))
    IN  IF monitor_times.raised # "" THEN morning
        ELSE LET stripped == { strip(monitor_times.value[i]) :
                                  i \in DOMAIN monitor_times.value }
                 holdings == IF current_time \in stripped
                             THEN <<"holdings">> ELSE <<>>
                 evening == IF current_time = Get(schedule, "evening", "15:00")
                            THEN <<"evening">> ELSE <<>>
             IN  morning \o holdings \o evening

\* The times of day of the ticks and of the schedules
Times == {"08:30", "09:30", "10:30", "15:00"}

\* The 'monitor' entries a schedule may hold
Monitors ==
    { Str(<<>>), Str(<< Piece("09:30", FALSE) >>),
      Str(<< Piece("09:30", FALSE), Piece("10:30", TRUE) >>),
      Str(<< Piece("15:00", FALSE) >>),
      List(<<"09:30", "10:30">>), List(<<>>), DefaultSchedule.monitor }

\* The schedules a POST may hold: every key is optional.
Schedules ==
    { Opt("morning", mo) @@ Opt("monitor", mn) @@ Opt("evening", ev) :
        mo \in Optional({"08:30"}),
        mn \in Optional(Monitors),
        ev \in Optional({"15:00", "10:30"}) }

ApiSchedule(method, data) ==
    LET r == api_schedule(config, method, data) IN
    /\ op' = "api_schedule"
    /\ arg' = [method |-> method, data |-> data]
    /\ config' = r.config
    /\ ret' = r.ret
    /\ UNCHANGED <<portfolio, trades, cache, now, threads, fetcher, sent>>

\* A tick of the scheduler at the time of day current_time; the portfolio is
\* empty, so the reports ask for no price.
CheckSchedule(current_time) ==
    LET messages == check_schedule(config, current_time) IN
    /\ Len(sent) < MaxSent
    /\ op' = "check_schedule"
    /\ arg' = [current_time |-> current_time]
    /\ ret' = Return(messages)
    /\ sent' = sent \o AsSeq([i \in 1 .. Len(messages) |->
                                Request(now, "telegram", 1)])
    /\ UNCHANGED <<portfolio, trades, cache, now, threads, fetcher, config>>

NextSchedule ==
    \/ ApiSchedule("GET", <<>>)
    \/ \E s \in Schedules : ApiSchedule("POST", [schedule |-> s])
    \/ \E t \in Times : CheckSchedule(t)

SpecSchedule == InitEmpty /\ [][NextSchedule]_vars

\* The schedule check_schedule reads, and the times of its 'monitor' entry,
\* whichever shape it has.
Schedule == Get(config, "schedule", <<>>)
MonitorTimes ==
    LET monitor == Get(Schedule, "monitor", Str(<<>>)) IN
    IF monitor.shape = "str"
    THEN { monitor.pieces[i].time : i \in DOMAIN monitor.pieces }
    ELSE { monitor.times[i] : i \in DOMAIN monitor.times }

Sent(message) == \E i \in DOMAIN ret.value : ret.value[i] = message

\* C30: at a tick whose time equals the evening time check_schedule sends
\* the evening report, and at a tick whose time is a monitor time it sends
\* the holdings report, whatever the other entries are and whether 'monitor'
\* is a comma-separated string or a list.
C30_ReportsSent ==
    op = "check_schedule" =>
        /\ arg.current_time = Get(Schedule, "evening", "15:00") => Sent("evening")
        /\ arg.current_time \in MonitorTimes => Sent("holdings")

\* What holds of the code: the reports are sent when 'monitor' is a string
\* or is missing; when it is a list, neither report is sent at any tick.
C30_StringOnly ==
    op = "check_schedule" =>
        IF Get(Schedule, "monitor", Str(<<>>)).shape = "str"
        THEN /\ arg.current_time = Get(Schedule, "evening", "15:00") <=> Sent("evening")
             /\ arg.current_time \in MonitorTimes <=> Sent("holdings")
        ELSE ~Sent("evening") /\ ~Sent("holdings")

====
